---- MODULE Spec2Model ----
(***************************************************************************)
(* chainsig.js: the signature normalizer, the NEAR chain-signature         *)
(* contract clients, and the XRP Ledger chain adapter, as state machines.  *)
(*                                                                         *)
(* Every component keeps its state in one record variable.  A             *)
(* specification drives one group of components and leaves the others in   *)
(* their initial state.                                                    *)
(***************************************************************************)
EXTENDS Integers, Sequences, FiniteSets, TLC

VARIABLES norm, cl, xrp, near, btc, adp, kdf

vars == <<norm, cl, xrp, near, btc, adp, kdf>>

(***************************************************************************)
(* JavaScript values of a signer response.                                 *)
(*                                                                         *)
(* A field of a response object is a record [t, v, n]: t is the kind of    *)
(* value the field holds, v a string (a sequence of hex digits 0..15 or of *)
(* bytes), n a number.                                                     *)
(*   "absent"   the key is not in the object                               *)
(*   "null"     the key holds null                                         *)
(*   "string"   the key holds the string v                                 *)
(*   "point"    the key holds an object { affine_point: v }                *)
(*   "scalar"   the key holds an object { scalar: v }                      *)
(*   "xy"       the key holds an object { x: n (bigint), y }               *)
(*   "emptyobj" the key holds an object without the probed key             *)
(*   "bigint"   the key holds the bigint n                                 *)
(*   "number"   the key holds the number n                                 *)
(*   "bytes"    the key holds the number array v                           *)
(* The scheme tag of a response is the string it holds, or "absent".       *)
(***************************************************************************)
F(t, v, n) == [t |-> t, v |-> v, n |-> n]

Absent == F("absent", <<>>, 0)

Null == F("null", <<>>, 0)

\* NaN, the value of `undefined + 27`; no number of the model is negative.
NaN == 0 - 1

\* typeof x === 'object' (true of null, as in JavaScript)
TypeofObject(f) == f.t \in {"null", "point", "scalar", "xy", "emptyobj", "bytes"}

\* `key in x` throws a TypeError when x is not an object
InThrows(f) == f.t \in {"null", "string", "bigint", "number"}

\* String.prototype.substring(2)
Substring2(str) == SubSeq(str, 3, Len(str))

RECURSIVE ToHex(_)
\* BigInt.prototype.toString(16), as a sequence of hex digits
ToHex(n) == IF n < 16 THEN <<n>> ELSE Append(ToHex(n \div 16), n % 16)

\* the target length of padStart in toRSV
PadLen == 64

\* String.prototype.padStart(len, '0')
PadStart(str, len) ==
  IF Len(str) >= len THEN str
  ELSE [i \in 1..len |-> IF i <= len - Len(str) THEN 0 ELSE str[i - (len - Len(str))]]

\* the offset toRSV adds to the signer's recovery id
VOffset == 27

\* x + 27 where x is a signer response field
PlusOffset(f) == IF f.t = "number" THEN f.n + VOffset ELSE NaN

(***************************************************************************)
(* Results of the normalizer: a returned value or a thrown error.          *)
(***************************************************************************)
Returned(kind, r, s, v, signature) ==
  [status |-> "ok", err |-> "", kind |-> kind, r |-> r, s |-> s, v |-> v,
   signature |-> signature]

Thrown(err) ==
  [status |-> "throw", err |-> err, kind |-> "none", r |-> <<>>, s |-> <<>>,
   v |-> 0, signature |-> <<>>]

ReturnedUndefined == Returned("undefined", <<>>, <<>>, 0, <<>>)

NotRun == [Thrown("") EXCEPT !.status = "none"]

InvalidSignatureFormat == "Invalid signature format"

TypeError == "TypeError"

\* toRSV: the NearNearMpcSignature guard; "type" when evaluating it throws
NearNearGuard(sig) ==
  IF sig.big_r.t = "absent" \/ ~TypeofObject(sig.big_r) THEN "no"
  ELSE IF InThrows(sig.big_r) THEN "type"
  ELSE IF sig.big_r.t # "point" THEN "no"
  ELSE IF sig.s.t = "absent" \/ ~TypeofObject(sig.s) THEN "no"
  ELSE IF InThrows(sig.s) THEN "type"
  ELSE IF sig.s.t # "scalar" THEN "no"
  ELSE "yes"

\* toRSV: the ChainSigNearMpcSignature guard
ChainSigNearGuard(sig) ==
  IF sig.big_r.t = "string" /\ sig.s.t = "string" THEN "yes" ELSE "no"

\* toRSV: the ChainSigEvmMpcSignature guard
ChainSigEvmGuard(sig) ==
  IF sig.bigR.t = "absent" THEN "no"
  ELSE IF InThrows(sig.bigR) THEN "type"
  ELSE IF sig.bigR.t # "xy" THEN "no"
  ELSE IF sig.s.t = "bigint" THEN "yes"
  ELSE "no"

toRSV_NoOffset(sig) ==
  IF sig.kind # "object" \/ NearNearGuard(sig) = "type" THEN Thrown(TypeError)
  ELSE IF NearNearGuard(sig) = "yes"
    THEN Returned("rsv", Substring2(sig.big_r.v), sig.s.v,
                  IF sig.recovery_id.t = "number" THEN sig.recovery_id.n ELSE NaN, <<>>)
  ELSE IF ChainSigNearGuard(sig) = "yes"
    THEN Returned("rsv", Substring2(sig.big_r.v), sig.s.v,
                  PlusOffset(sig.recovery_id), <<>>)
  ELSE IF ChainSigEvmGuard(sig) = "type" THEN Thrown(TypeError)
  ELSE IF ChainSigEvmGuard(sig) = "yes"
    THEN Returned("rsv", PadStart(ToHex(sig.bigR.n), PadLen),
                  PadStart(ToHex(sig.s.n), PadLen), PlusOffset(sig.recoveryId), <<>>)
  ELSE Thrown(InvalidSignatureFormat)

\* toRSV; `'big_r' in signature` throws unless signature is an object
toRSV(sig) ==
  IF sig.kind # "object" \/ NearNearGuard(sig) = "type" THEN Thrown(TypeError)
  ELSE IF NearNearGuard(sig) = "yes"
    THEN Returned("rsv", Substring2(sig.big_r.v), sig.s.v,
                  PlusOffset(sig.recovery_id), <<>>)
  ELSE IF ChainSigNearGuard(sig) = "yes"
    THEN Returned("rsv", Substring2(sig.big_r.v), sig.s.v,
                  PlusOffset(sig.recovery_id), <<>>)
  ELSE IF ChainSigEvmGuard(sig) = "type" THEN Thrown(TypeError)
  ELSE IF ChainSigEvmGuard(sig) = "yes"
    THEN Returned("rsv", PadStart(ToHex(sig.bigR.n), PadLen),
                  PadStart(ToHex(sig.s.n), PadLen), PlusOffset(sig.recoveryId), <<>>)
  ELSE Thrown(InvalidSignatureFormat)

responseToMpcSignature_DropsLastByte(sig) ==
  IF sig.kind # "object" THEN Thrown(TypeError)
  ELSE IF sig.scheme = "Ed25519" /\ sig.signature.t # "absent"
    THEN Returned("ed25519", <<>>, <<>>, 0,
                  SubSeq(sig.signature.v, 1, Len(sig.signature.v) - 1))
  ELSE toRSV(sig)

\* responseToMpcSignature: `'scheme' in signature` throws unless signature is
\* an object, so the `return undefined` arm is reached by no value.
responseToMpcSignature(sig) ==
  IF sig.kind # "object" THEN Thrown(TypeError)
  ELSE IF sig.scheme = "Ed25519" /\ sig.signature.t # "absent"
    THEN Returned("ed25519", <<>>, <<>>, 0, sig.signature.v)
  ELSE IF sig.kind = "object" THEN toRSV(sig)
  ELSE ReturnedUndefined

(***************************************************************************)
(* Signer responses the normalizer is applied to.                          *)
(***************************************************************************)
\* the signer's recovery id is the parity bit of the ephemeral point
RecoveryIds == {0, 1}

AffinePoints == {<<0, 2, 10, 11>>, <<0, 3, 12, 13, 14>>}

Scalars == {<<1, 2>>, <<15, 15, 0>>}

BigInts == {5, 255}

SignatureBytes == {<<7, 0, 255>>}

BigRFields ==
  {Absent, Null, F("emptyobj", <<>>, 0)}
    \cup {F("string", v, 0) : v \in AffinePoints}
    \cup {F("point", v, 0) : v \in AffinePoints}

SFields ==
  {Absent, Null, F("emptyobj", <<>>, 0)}
    \cup {F("string", v, 0) : v \in Scalars}
    \cup {F("scalar", v, 0) : v \in Scalars}
    \cup {F("bigint", <<>>, n) : n \in BigInts}

BigRCamelFields ==
  {Absent, Null, F("emptyobj", <<>>, 0)} \cup {F("xy", <<>>, n) : n \in BigInts}

RecoveryFields == {Absent} \cup {F("number", <<>>, n) : n \in RecoveryIds}

SignatureFields == {Absent} \cup {F("bytes", v, 0) : v \in SignatureBytes}

Schemes == {"absent", "Ed25519", "ed25519"}

ResponseObject(big_r, s, bigR, recovery_id, recoveryId, scheme, signature) ==
  [kind |-> "object", big_r |-> big_r, s |-> s, bigR |-> bigR,
   recovery_id |-> recovery_id, recoveryId |-> recoveryId, scheme |-> scheme,
   signature |-> signature]

EmptyObject == ResponseObject(Absent, Absent, Absent, Absent, Absent, "absent", Absent)

\* null and undefined, as a caller or a failed transaction can hand them in
NullResponse == [EmptyObject EXCEPT !.kind = "null"]

UndefinedResponse == [EmptyObject EXCEPT !.kind = "undefined"]

SignerResponses ==
  {NullResponse, UndefinedResponse}
    \cup {ResponseObject(a, b, c, d, e, f, g) :
           a \in BigRFields, b \in SFields, c \in BigRCamelFields,
           d \in RecoveryFields, e \in RecoveryFields, f \in Schemes,
           g \in SignatureFields}

\* the three ECDSA response types and the Ed25519 response type of types.ts
NearNearMpcSignature(point, scalar, rid) ==
  [EmptyObject EXCEPT !.big_r = F("point", point, 0), !.s = F("scalar", scalar, 0),
                      !.recovery_id = F("number", <<>>, rid)]

ChainSigNearMpcSignature(point, scalar, rid) ==
  [EmptyObject EXCEPT !.big_r = F("string", point, 0), !.s = F("string", scalar, 0),
                      !.recovery_id = F("number", <<>>, rid)]

ChainSigEvmMpcSignature(x, s, rid) ==
  [EmptyObject EXCEPT !.bigR = F("xy", <<>>, x), !.s = F("bigint", <<>>, s),
                      !.recoveryId = F("number", <<>>, rid)]

Ed25519Response(bytes) ==
  [EmptyObject EXCEPT !.scheme = "Ed25519", !.signature = F("bytes", bytes, 0)]

(***************************************************************************)
(* The normalizer applied to one signer response.                          *)
(***************************************************************************)
NormIdle == [sig |-> EmptyObject, out |-> NotRun, via |-> "none"]

InitNorm == norm \in {[NormIdle EXCEPT !.sig = sg] : sg \in SignerResponses}

\* responseToMpcSignature({ signature })
NormalizeResponse ==
  /\ norm.via = "none"
  /\ norm' = [norm EXCEPT !.out = responseToMpcSignature(norm.sig),
                          !.via = "responseToMpcSignature"]

\* cryptography.toRSV(signature), as the retrying client calls it
ConvertToRSV ==
  /\ norm.via = "none"
  /\ norm' = [norm EXCEPT !.out = toRSV(norm.sig), !.via = "toRSV"]

(***************************************************************************)
(* The contract clients.                                                   *)
(*   "retry"    the ChainSignatureContract whose calls run under withRetry *)
(*   "provider" the ChainSignatureContract that queries a JSON-RPC         *)
(*              provider and signs through the caller's signerAccount      *)
(*   "helper"   the stand-alone sign(account, contractId, payload, path)   *)
(* One call is in progress at a time; cl records it.                       *)
(***************************************************************************)
\* payloads are told apart by a small number
NumPayloadValues == 2

PayloadValues == 1..NumPayloadValues

\* the longest payload list of a sign call
MaxPayloads == 2

RECURSIVE SeqsUpTo(_, _)
SeqsUpTo(S, n) ==
  IF n = 0 THEN {<<>>}
  ELSE LET shorter == SeqsUpTo(S, n - 1) IN
       shorter \cup {Append(q, x) : q \in {r \in shorter : Len(r) = n - 1}, x \in S}

PayloadLists == SeqsUpTo(PayloadValues, MaxPayloads)

KeyTypes == {"Ecdsa", "Eddsa"}

ViewOps == {"getPublicKey", "getDerivedPublicKey", "getCurrentSignatureDeposit"}

DONT_CARE_ACCOUNT_ID == "dontcare"

AccountIds == {DONT_CARE_ACCOUNT_ID, "alice.near"}

\* withRetry's default number of attempts
Retries == 3

\* the first delay of withRetry, in ms
BaseDelay == 1000

RECURSIVE Pow2(_)
Pow2(i) == IF i = 0 THEN 1 ELSE 2 * Pow2(i - 1)

\* withRetry: const delay = 1000 * Math.pow(2, i)
BackoffDelay(i) == BaseDelay * Pow2(i)

\* what the remote signer can answer to a request for payload p; the answer
\* carries p, so that answers to different payloads differ
ResponsesFor(p) ==
  {NearNearMpcSignature(<<0, 2, p>>, <<p, p>>, p % 2),
   ChainSigNearMpcSignature(<<0, 3, p>>, <<p>>, (p + 1) % 2),
   ChainSigEvmMpcSignature(p, p + 16, p % 2),
   Ed25519Response(<<p, p, p>>),
   NullResponse,
   EmptyObject}

\* a withRetry activation: i is the loop index, n the number of times the
\* operation was invoked, delays the waits so far, lastError the message of
\* the error caught last, failures the messages of all errors caught
Frame(op, phase, n) ==
  [op |-> op, i |-> 0, n |-> n, delays |-> <<>>, phase |-> phase,
   lastError |-> <<>>, failures |-> <<>>]

\* the messages of the errors an operation throws; <<>> is a thrown value
\* that has no message
FailureMessages == {<<"timeout">>, <<"rate limited">>, <<>>}

ViewValues == {1, 2}

\* how one run of a read-only operation ends
ViewOutcomes ==
  {[ok |-> TRUE, value |-> v, message |-> <<>>] : v \in ViewValues}
    \cup {[ok |-> FALSE, value |-> 0, message |-> m] : m \in FailureMessages}

\* withRetry: `Operation failed after ${retries} attempts. Last error:
\* ${lastError?.message}`
OperationFailedAfter(message) ==
  <<"Operation failed after 3 attempts. Last error: ">>
    \o (IF message = <<>> THEN <<"undefined">> ELSE message)

Catch_KeepsFirstError(f, message) ==
  [f EXCEPT !.lastError = IF f.failures = <<>> THEN message ELSE @,
            !.failures = Append(@, message)]

\* withRetry: catch (error) { lastError = error as Error; ... }
Catch(f, message) ==
  [f EXCEPT !.lastError = message, !.failures = Append(@, message)]

ClIdle ==
  [impl |-> "none", op |-> "none", outcome |-> "idle", stack |-> <<>>,
   payloads |-> <<>>, keyType |-> "Ecdsa", transactions |-> <<>>,
   slots |-> <<>>, order |-> <<>>, signerLog |-> {}, submits |-> <<>>,
   queries |-> 0, result |-> <<>>, error |-> "", value |-> 0, message |-> <<>>]

Top(c) == c.stack[Len(c.stack)]

RECURSIVE FailTop(_, _)
\* withRetry's catch: the operation of the top activation threw an error
\* with this message.  Before the last attempt it waits and runs the
\* operation again; after it, it throws `Operation failed after ...` to its
\* caller.
FailTop(c, message) ==
  LET k == Len(c.stack)
      f == Catch(c.stack[k], message)
      g == [f EXCEPT !.i = f.i + 1, !.delays = Append(f.delays, BackoffDelay(f.i))]
      thrown == OperationFailedAfter(f.lastError)
  IN IF f.i < Retries - 1
       THEN IF f.op = "sign"
              THEN [c EXCEPT !.stack =
                      SubSeq(c.stack, 1, k - 1)
                        \o <<[g EXCEPT !.n = g.n + 1, !.phase = "deposit"],
                             Frame("getCurrentSignatureDeposit", "run", 0)>>]
              ELSE [c EXCEPT !.stack[k] = g]
     ELSE IF k = 1
       THEN [c EXCEPT !.stack[k] = f, !.outcome = "rejected",
                      !.error = "Operation failed after", !.message = thrown]
     ELSE FailTop([c EXCEPT !.stack = SubSeq(c.stack, 1, k - 1)], thrown)

\* ChainSignatureContract (withRetry): getPublicKey, getDerivedPublicKey,
\* getCurrentSignatureDeposit
RetryView(op) ==
  /\ cl.outcome = "idle"
  /\ cl' = [ClIdle EXCEPT !.impl = "retry", !.op = op, !.outcome = "pending",
                          !.stack = <<Frame(op, "run", 0)>>]

\* ChainSignatureContract (withRetry): sign(args); requireAccount, then the
\* first run of the operation, which starts with getCurrentSignatureDeposit()
RetrySign(p, acct) ==
  /\ cl.outcome = "idle"
  /\ cl' = IF acct = DONT_CARE_ACCOUNT_ID
             THEN [ClIdle EXCEPT !.impl = "retry", !.op = "sign",
                                 !.payloads = <<p>>, !.submits = <<0>>,
                                 !.outcome = "rejected",
                                 !.error = "A valid account ID and keypair are required"]
             ELSE [ClIdle EXCEPT !.impl = "retry", !.op = "sign",
                                 !.payloads = <<p>>, !.submits = <<0>>,
                                 !.outcome = "pending",
                                 !.stack = <<Frame("sign", "deposit", 1),
                                             Frame("getCurrentSignatureDeposit", "run", 0)>>]

\* one run of a read-only operation: the contract's view method answers or fails
ViewAttempt(how) ==
  /\ cl.impl = "retry" /\ cl.outcome = "pending"
  /\ Top(cl).op \in ViewOps
  /\ LET k == Len(cl.stack)
         c == [cl EXCEPT !.stack[k].n = @ + 1, !.queries = @ + 1]
     IN cl' = IF ~how.ok THEN FailTop(c, how.message)
              ELSE IF k = 1 THEN [c EXCEPT !.outcome = "resolved", !.value = how.value]
              ELSE [c EXCEPT !.stack = [SubSeq(c.stack, 1, k - 1)
                                          EXCEPT ![k - 1].phase = "submit"]]

\* the sign operation after the deposit: contract.sign(...) is submitted; it
\* rejects, or answers with resp, which toRSV converts or rejects
SignSubmit(rejects, resp) ==
  /\ cl.impl = "retry" /\ cl.outcome = "pending"
  /\ Top(cl).op = "sign" /\ Top(cl).phase = "submit"
  /\ resp \in ResponsesFor(cl.payloads[1])
  /\ LET c == [cl EXCEPT !.submits[1] = @ + 1] IN
     cl' = IF rejects THEN FailTop(c, <<"contract.sign">>)
           ELSE IF toRSV(resp).status # "ok" THEN FailTop(c, <<toRSV(resp).err>>)
           ELSE [c EXCEPT !.outcome = "resolved", !.result = <<toRSV(resp)>>]

Pending == [EmptyObject EXCEPT !.kind = "pending"]

Paths == {"any_string"}

\* ChainSignatureContract.sign: payloads.map(payload => ({ ... request ... }))
BuildTransactions(payloads, path, keyType) ==
  [i \in 1..Len(payloads) |->
     [methodName |-> "sign", payload |-> payloads[i], keyType |-> keyType,
      path |-> path, domain_id |-> IF keyType = "Eddsa" THEN 1 ELSE 0]]

MapResponses_Reversed(sentTxs) ==
  [i \in 1..Len(sentTxs) |-> responseToMpcSignature(sentTxs[Len(sentTxs) + 1 - i])]

\* ChainSignatureContract.sign: sentTxs.map(tx => responseToMpcSignature({ signature: tx }))
MapResponses(sentTxs) ==
  [i \in 1..Len(sentTxs) |-> responseToMpcSignature(sentTxs[i])]

\* ChainSignatureContract (provider): sign({ payloads, path, keyType,
\* signerAccount }) builds one transaction per payload and hands all of them
\* to signerAccount.signAndSendTransactions in one call
ProviderSign(payloads, path, keyType) ==
  /\ cl.outcome = "idle"
  /\ cl' = [ClIdle EXCEPT !.impl = "provider", !.op = "sign", !.outcome = "pending",
                          !.payloads = payloads, !.keyType = keyType,
                          !.transactions = BuildTransactions(payloads, path, keyType),
                          !.slots = [i \in 1..Len(payloads) |-> Pending],
                          !.submits = [i \in 1..Len(payloads) |-> 1]]

\* signerAccount.signAndSendTransactions: the remote signer answers the
\* request at position i; answers arrive in any order and each is kept at the
\* position of its transaction (transactions.map / txs.map)
SignerRespond(i, resp) ==
  /\ cl.impl = "provider" /\ cl.op = "sign" /\ cl.outcome = "pending"
  /\ i \in 1..Len(cl.slots)
  /\ cl.slots[i] = Pending
  /\ resp \in ResponsesFor(cl.transactions[i].payload)
  /\ cl' = [cl EXCEPT !.slots[i] = resp, !.order = Append(@, i),
                      !.signerLog = @ \cup {[payload |-> cl.transactions[i].payload,
                                             response |-> resp]}]

\* signerAccount.signAndSendTransactions rejects: sign rejects with its error
SignerReject ==
  /\ cl.impl = "provider" /\ cl.op = "sign" /\ cl.outcome = "pending"
  /\ \E i \in 1..Len(cl.slots) : cl.slots[i] = Pending
  /\ cl' = [cl EXCEPT !.outcome = "rejected", !.error = "signAndSendTransactions"]

\* ChainSignatureContract (provider): sign after the await; a response that
\* the normalizer throws on makes the whole call reject
ProviderSignCollect ==
  /\ cl.impl = "provider" /\ cl.op = "sign" /\ cl.outcome = "pending"
  /\ \A i \in 1..Len(cl.slots) : cl.slots[i] # Pending
  /\ LET rsvSignatures == MapResponses(cl.slots)
         bad == {i \in 1..Len(rsvSignatures) : rsvSignatures[i].status # "ok"}
     IN cl' = IF bad # {}
                THEN [cl EXCEPT !.outcome = "rejected",
                                !.error = rsvSignatures[CHOOSE i \in bad :
                                             \A j \in bad : i <= j].err]
                ELSE [cl EXCEPT !.outcome = "resolved", !.result = rsvSignatures]

\* ChainSignatureContract (provider): getPublicKey, getDerivedPublicKey,
\* getCurrentSignatureDeposit call viewFunction
ProviderView(op) ==
  /\ cl.outcome = "idle"
  /\ cl' = [ClIdle EXCEPT !.impl = "provider", !.op = op, !.outcome = "pending"]

\* viewFunction: one provider.query; its rejection is the call's rejection
ProviderQueryReturn(ok) ==
  /\ cl.impl = "provider" /\ cl.op \in ViewOps /\ cl.outcome = "pending"
  /\ cl' = [cl EXCEPT !.queries = @ + 1,
                      !.outcome = IF ok THEN "resolved" ELSE "rejected",
                      !.error = IF ok THEN "" ELSE "provider.query"]

\* the key types of the NEAR contract client that sends key_version
NearKeyTypes == {"secp256k1", "ed25519"}

\* near/ChainSignatureContract.sign: payloads.map(payload => ({ ... request:
\* { payload_v2: { [keyType]: payload }, path, key_version: 0 } ... }))
NearBuildTransactions(payloads, path, keyType) ==
  [i \in 1..Len(payloads) |->
     [methodName |-> "sign", payload |-> payloads[i], keyType |-> keyType,
      path |-> path, key_version |-> 0]]

\* near/ChainSignatureContract.sign({ payloads, path, keyType, signerAccount }):
\* one transaction per payload, all handed to signAndSendTransactions
NearContractSign(payloads, path, keyType) ==
  /\ cl.outcome = "idle"
  /\ cl' = [ClIdle EXCEPT !.impl = "near", !.op = "sign", !.outcome = "pending",
                          !.payloads = payloads, !.keyType = keyType,
                          !.transactions = NearBuildTransactions(payloads, path, keyType),
                          !.submits = [i \in 1..Len(payloads) |-> 1]]

\* near/ChainSignatureContract.sign after the await: signAndSendTransactions
\* rejected, or its outcomes went through the response normalizer of
\* ./transaction, which is not part of these sources: what it returns for
\* each outcome is left open
NearContractSignReturn(ok) ==
  /\ cl.impl = "near" /\ cl.op = "sign" /\ cl.outcome = "pending"
  /\ cl' = [cl EXCEPT !.outcome = IF ok THEN "resolved" ELSE "rejected",
                      !.error = IF ok THEN "" ELSE "signAndSendTransactions"]

\* sign(account, contractId, payload, path): account.functionCall is issued
HelperSign(p) ==
  /\ cl.outcome = "idle"
  /\ cl' = [ClIdle EXCEPT !.impl = "helper", !.op = "sign", !.outcome = "pending",
                          !.payloads = <<p>>, !.submits = <<1>>]

HelperOutcomes == {"throws", "SuccessValue", "Failure"}

\* sign(account, ...): a thrown functionCall and a status without
\* SuccessValue both end in `return console.log(...)`, which is undefined
HelperSignReturn(how) ==
  /\ cl.impl = "helper" /\ cl.outcome = "pending"
  /\ cl' = [cl EXCEPT !.outcome = "resolved",
                      !.result =
                        IF how = "SuccessValue"
                          THEN <<Returned("rs", Substring2(<<0, 2, cl.payloads[1]>>),
                                          <<cl.payloads[1]>>, NaN, <<>>)>>
                          ELSE <<ReturnedUndefined>>]

(***************************************************************************)
(* The XRP Ledger adapter.                                                 *)
(*   "shared"  the adapter that keeps one Client for all its requests      *)
(*   "scoped"  the adapter that creates a Client in every request          *)
(* Requests overlap: every await is a step of its own.  Client 0 is the    *)
(* adapter's own client, client r the one request r creates.               *)
(***************************************************************************)
Req == {1, 2}

XrpVersions == {"shared", "scoped"}

XrpKinds == {"getBalance", "prepareTransactionForSigning", "broadcastTx"}

\* the decimals getBalance reports for XRP
XrpDecimals == 6

Balances == {0, 25}

ClientOf(version, r) == IF version = "shared" THEN 0 ELSE r

\* opened: the request's connect() succeeded; closed: the request has called
\* disconnect() on its connection; failure: the error the request caught;
\* cause: the cause attached to the error the request rejects with
XIdleReq ==
  [kind |-> "none", pc |-> "idle", outcome |-> "idle", result |-> 0,
   decimals |-> 0, hashes |-> 0, error |-> "", opened |-> FALSE, closed |-> FALSE,
   submits |-> 0, notFound |-> FALSE, submitFailed |-> FALSE, heldErr |-> "none",
   heldBalance |-> 0, engine |-> "none", hasHash |-> FALSE,
   failure |-> "none", cause |-> "none", hash |-> <<>>, disconnectFailed |-> FALSE]

XrpIdle ==
  [version |-> "shared", connected |-> [c \in {0} \cup Req |-> FALSE],
   req |-> [r \in Req |-> XIdleReq]]

Resolve(q, result) == [q EXCEPT !.pc = "done", !.outcome = "resolved", !.result = result]

Reject(q, error) == [q EXCEPT !.pc = "done", !.outcome = "rejected", !.error = error]

\* balance || 0n
OrZero(b) == IF b = 0 THEN 0 ELSE b

ResolveBalance(q, b) == [Resolve(q, OrZero(b)) EXCEPT !.decimals = XrpDecimals]

FailedBalance == "Failed to fetch XRP balance"

FailedPrepare == "Failed to prepare XRP transaction for signing"

FailedBroadcast == "Failed to broadcast XRP transaction"

NetworkFailure == "network failure"

EncodeFailure == "encodeTx throws"

\* prepareTransactionForSigning: catch (error) { console.error(..., error);
\* throw new Error('Failed to prepare XRP transaction for signing') }: the new
\* error is built from the message alone
CatchPrepare(q, caught) ==
  [Reject(q, FailedPrepare) EXCEPT !.failure = caught, !.cause = "none"]

\* an error thrown by client.request: the fields getBalance looks at, and
\* whether the ledger meant that the account does not exist
RequestError(notFound, dataError, inMessage, inDataMessage) ==
  [t |-> "error", b |-> 0, notFound |-> notFound, dataError |-> dataError,
   inMessage |-> inMessage, inDataMessage |-> inDataMessage]

\* a network failure, a NotConnectedError, any error without those marks
OtherError == RequestError(FALSE, "other", FALSE, FALSE)

AccountInfoReplies ==
  {[OtherError EXCEPT !.t = "balance", !.b = b] : b \in Balances}
    \cup {[OtherError EXCEPT !.t = "noBalance"]}
    \cup {OtherError,
          RequestError(TRUE, "actNotFound", FALSE, FALSE),
          RequestError(TRUE, "other", TRUE, FALSE),
          RequestError(TRUE, "other", FALSE, TRUE),
          RequestError(TRUE, "actNotFound", TRUE, TRUE)}

IsAccountNotFound_CodeOnly(e) == e.dataError = "actNotFound"

\* getBalance: error?.data?.error === 'actNotFound' ||
\* error?.message?.includes('Account not found') ||
\* error?.data?.error_message?.includes('Account not found')
IsAccountNotFound(e) ==
  e.dataError = "actNotFound" \/ e.inMessage \/ e.inDataMessage

\* a request is issued on the adapter
XrpStart(r, kind) ==
  /\ xrp.req[r].pc = "idle"
  /\ xrp' = [xrp EXCEPT !.req[r] = [XIdleReq EXCEPT !.kind = kind, !.pc = "connect",
                                                     !.outcome = "pending"]]

\* await client.connect(), the first await of all three operations
XrpConnect(r, ok) ==
  LET q == xrp.req[r]
      c == ClientOf(xrp.version, r)
  IN /\ q.pc = "connect"
     /\ xrp' =
          IF ok
            THEN [xrp EXCEPT !.connected[c] = TRUE,
                             !.req[r] = [q EXCEPT !.opened = TRUE,
                                           !.pc = CASE q.kind = "getBalance" -> "request"
                                                    [] q.kind = "broadcastTx" -> "submit"
                                                    [] xrp.version = "shared" -> "autofill"
                                                    [] OTHER -> "account_info"]]
          ELSE [xrp EXCEPT !.req[r] =
                  CASE q.kind = "getBalance" /\ xrp.version = "shared" ->
                         [q EXCEPT !.pc = "finally", !.heldErr = FailedBalance]
                    [] q.kind = "getBalance" -> ResolveBalance(q, 0)
                    [] q.kind = "broadcastTx" -> Reject(q, FailedBroadcast)
                    [] OTHER -> CatchPrepare(q, NetworkFailure)]

\* getBalance: await client.request({ command: 'account_info', ... }) and the
\* code up to the next await.  A client that is not connected throws.
XrpRequest(r, reply) ==
  LET q == xrp.req[r]
      c == ClientOf(xrp.version, r)
      p == [q EXCEPT !.notFound = reply.notFound]
  IN /\ q.pc = "request"
     /\ reply \in AccountInfoReplies
     /\ xrp.connected[c] \/ reply = OtherError
     /\ xrp' = [xrp EXCEPT !.req[r] =
          IF xrp.version = "shared"
            THEN CASE reply.t = "balance" ->
                        [p EXCEPT !.pc = "finally", !.heldBalance = reply.b]
                   [] reply.t = "error" /\ IsAccountNotFound(reply) ->
                        [p EXCEPT !.pc = "finally", !.heldBalance = 0]
                   [] OTHER ->
                        [p EXCEPT !.pc = "finally", !.heldErr = FailedBalance]
            ELSE CASE reply.t = "balance" ->
                        [p EXCEPT !.pc = "disconnect", !.heldBalance = reply.b]
                   [] reply.t = "error" /\ IsAccountNotFound(reply) ->
                        [p EXCEPT !.pc = "catch_disconnect", !.heldBalance = 0]
                   [] OTHER ->
                        [p EXCEPT !.pc = "catch_disconnect", !.heldErr = FailedBalance]]

\* getBalance ("shared"): finally { await this.client.disconnect() }, whose
\* own failure is only logged
XrpFinally(r, ok) ==
  LET q == xrp.req[r] IN
  /\ q.pc = "finally"
  /\ xrp' = [xrp EXCEPT !.connected[0] = IF ok THEN FALSE ELSE @,
                        !.req[r] =
                          LET d == [q EXCEPT !.closed = TRUE] IN
                          IF q.heldErr = "none" THEN ResolveBalance(d, q.heldBalance)
                          ELSE Reject(d, q.heldErr)]

\* getBalance ("scoped"): await client.disconnect() after the reply; when it
\* throws, the inner catch runs with that error
XrpBalanceDisconnect(r, ok) ==
  LET q == xrp.req[r] IN
  /\ q.kind = "getBalance" /\ q.pc = "disconnect"
  /\ xrp' = IF ok
              THEN [xrp EXCEPT !.connected[r] = FALSE,
                               !.req[r] = ResolveBalance([q EXCEPT !.closed = TRUE],
                                                         q.heldBalance)]
              ELSE [xrp EXCEPT !.req[r] = [q EXCEPT !.closed = TRUE,
                                                   !.pc = "catch_disconnect",
                                                   !.heldErr = FailedBalance]]

\* getBalance ("scoped"): the inner catch disconnects, answers zero for
\* account-not-found and rethrows the rest; the outer catch answers zero for
\* whatever reaches it
XrpCatchDisconnect(r, ok) ==
  LET q == xrp.req[r] IN
  /\ q.pc = "catch_disconnect"
  /\ xrp' = [xrp EXCEPT !.connected[r] = IF ok THEN FALSE ELSE @,
                        !.req[r] = ResolveBalance([q EXCEPT !.closed = TRUE], 0)]

PrepareOutcomes == {"ok", "fails", "encodeThrows"}

RECURSIVE SumBytes(_)
SumBytes(bytes) ==
  IF Len(bytes) = 0 THEN 0 ELSE bytes[1] + SumBytes(Tail(bytes))

\* createHash('sha512').update(data).digest(): 64 bytes; the bytes are a fixed
\* function of the data standing for the hash
Sha512(data) ==
  [i \in 1..64 |-> (31 * SumBytes(data) + 7 * i * (Len(data) + 1)) % 256]

\* the signing prefix 'STX\x00'
SigningPrefix == <<83, 84, 88, 0>>

\* Buffer.from(encodeTx(transaction), 'hex') of the transaction of request r
EncodedTx(r) == <<18, 0, 0, 36, r>>

\* prepareTransactionForSigning: the hash put into hashesToSign; "shared"
\* takes hash.slice(0, 32), "scoped" Array.from(txHash)
SigningHash(version, encodedBytes) ==
  LET hash == Sha512(SigningPrefix \o encodedBytes)
  IN IF version = "shared" THEN SubSeq(hash, 1, 32) ELSE hash

\* prepareTransactionForSigning ("shared"): await this.client.autofill(...),
\* then encode and hash; the client is left connected
XrpAutofill(r, how) ==
  LET q == xrp.req[r] IN
  /\ q.pc = "autofill"
  /\ how \in PrepareOutcomes
  /\ xrp.connected[0] \/ how = "fails"
  /\ xrp' = [xrp EXCEPT !.req[r] =
               IF how = "ok"
                 THEN [Resolve(q, 0) EXCEPT !.hashes = 1,
                                            !.hash = SigningHash(xrp.version, EncodedTx(r))]
               ELSE CatchPrepare(q, IF how = "fails" THEN NetworkFailure
                                    ELSE EncodeFailure)]

\* prepareTransactionForSigning ("scoped"): the account_info request, then
\* the ledger request; a failure of either leaves the try block at once
XrpPrepareRequest(r, ok) ==
  LET q == xrp.req[r] IN
  /\ q.pc \in {"account_info", "ledger"}
  /\ xrp' = [xrp EXCEPT !.req[r] =
               IF ~ok THEN CatchPrepare(q, NetworkFailure)
               ELSE [q EXCEPT !.pc = IF q.pc = "account_info" THEN "ledger"
                                     ELSE "disconnect"]]

\* prepareTransactionForSigning ("scoped"): await client.disconnect(), then
\* build, encode and hash
XrpPrepareDisconnect(r, how) ==
  LET q == xrp.req[r] IN
  /\ q.kind = "prepareTransactionForSigning" /\ q.pc = "disconnect"
  /\ how \in PrepareOutcomes
  /\ xrp' = CASE how = "fails" ->
                   [xrp EXCEPT !.req[r] = CatchPrepare([q EXCEPT !.closed = TRUE],
                                                       NetworkFailure)]
              [] how = "ok" ->
                   [xrp EXCEPT !.connected[r] = FALSE,
                               !.req[r] = [Resolve([q EXCEPT !.closed = TRUE], 0)
                                             EXCEPT !.hashes = 1,
                                                    !.hash = SigningHash(xrp.version,
                                                                         EncodedTx(r))]]
              [] OTHER ->
                   [xrp EXCEPT !.connected[r] = FALSE,
                               !.req[r] = CatchPrepare([q EXCEPT !.closed = TRUE],
                                                       EncodeFailure)]

EngineResults == {"tesSUCCESS", "terQUEUED", "tecUNFUNDED_PAYMENT", "tefPAST_SEQ"}

AcceptedResults_SuccessOnly == {"tesSUCCESS"}

\* the engine results that accept the transaction
AcceptedResults == {"tesSUCCESS", "terQUEUED"}

\* parseThrows: JSON.parse or encodeTx throws; keyRejected: the SigningPubKey
\* check of the "scoped" revision throws
SubmitOutcomes ==
  {[t |-> "parseThrows", engine |-> "none", hasHash |-> FALSE],
   [t |-> "keyRejected", engine |-> "none", hasHash |-> FALSE],
   [t |-> "submitRejects", engine |-> "none", hasHash |-> FALSE]}
    \cup {[t |-> "response", engine |-> e, hasHash |-> h] :
            e \in EngineResults, h \in BOOLEAN}

SubmitFailed_Resubmit(q) ==
  IF q.submits < 2 THEN [q EXCEPT !.submitFailed = TRUE]
  ELSE Reject([q EXCEPT !.submitFailed = TRUE], FailedBroadcast)

\* broadcastTx: catch (error) { throw new Error('Failed to broadcast XRP
\* transaction') } with the error of client.submit
SubmitFailed(q) == Reject([q EXCEPT !.submitFailed = TRUE], FailedBroadcast)

\* broadcastTx: JSON.parse and encodeTx, then await client.submit(txBlob)
XrpSubmit(r, how) ==
  LET q == xrp.req[r]
      c == ClientOf(xrp.version, r)
      s == [q EXCEPT !.submits = @ + 1]
  IN /\ q.pc = "submit"
     /\ how \in SubmitOutcomes
     /\ xrp.connected[c] \/ how.t # "response"
     /\ how.t = "keyRejected" => xrp.version = "scoped"
     /\ xrp' = [xrp EXCEPT !.req[r] =
          CASE how.t \in {"parseThrows", "keyRejected"} -> Reject(q, FailedBroadcast)
            [] how.t = "submitRejects" -> SubmitFailed(s)
            [] OTHER -> [s EXCEPT !.pc = "disconnect", !.engine = how.engine,
                                  !.hasHash = how.hasHash]]

\* broadcastTx: throw new Error(`Transaction failed: ${engine_result} - ...`)
TransactionFailed(engine) ==
  CASE engine = "tecUNFUNDED_PAYMENT" ->
         "Transaction failed: tecUNFUNDED_PAYMENT - tecUNFUNDED_PAYMENT"
    [] engine = "tefPAST_SEQ" -> "Transaction failed: tefPAST_SEQ - tefPAST_SEQ"
    [] OTHER -> "Transaction submitted but no hash received"

\* broadcastTx: the error thrown inside the try block is caught by the same
\* catch (error) { console.error(..., error); throw new Error('Failed to
\* broadcast XRP transaction') }
CatchBroadcast(q, caught) ==
  [Reject(q, FailedBroadcast) EXCEPT !.failure = caught, !.cause = "none"]

\* broadcastTx: await client.disconnect(), then the engine result decides
XrpBroadcastDisconnect(r, ok) ==
  LET q == xrp.req[r]
      c == ClientOf(xrp.version, r)
      d == [q EXCEPT !.closed = TRUE]
  IN /\ q.kind = "broadcastTx" /\ q.pc = "disconnect"
     /\ xrp' =
          IF ~ok THEN [xrp EXCEPT !.req[r] =
                         Reject([d EXCEPT !.disconnectFailed = TRUE], FailedBroadcast)]
          ELSE [xrp EXCEPT !.connected[c] = FALSE,
                           !.req[r] =
                             IF q.engine \in AcceptedResults /\ q.hasHash
                               THEN Resolve(d, 1)
                               ELSE CatchBroadcast(d, TransactionFailed(q.engine))]

(***************************************************************************)
(* sendTransactionUntil, the NEAR helper that signs, sends and awaits a    *)
(* transaction.                                                            *)
(***************************************************************************)
\* options.retryCount: how often viem's withRetry runs the status query again
RetryCount == 3

NearIdle == [pc |-> "idle", outcome |-> "idle", sends |-> 0, polls |-> 0, error |-> ""]

NearSteps == {"ok", "fails", "noHash"}

\* sendTransactionUntil is called
NearCall ==
  /\ near.pc = "idle"
  /\ near' = [NearIdle EXCEPT !.pc = "setup", !.outcome = "pending"]

\* connect, the access-key query and signMessage: all before anything is sent
NearSetup(ok) ==
  /\ near.pc = "setup"
  /\ near' = IF ok THEN [near EXCEPT !.pc = "send"]
             ELSE [near EXCEPT !.pc = "done", !.outcome = "rejected", !.error = "setup"]

\* await near.connection.provider.sendTransactionUntil(signedTransaction,
\* 'INCLUDED_FINAL'), then the check of the hash
NearSend(how) ==
  /\ near.pc = "send"
  /\ how \in NearSteps
  /\ near' = CASE how = "ok" -> [near EXCEPT !.sends = @ + 1, !.pc = "status"]
               [] how = "fails" -> [near EXCEPT !.sends = @ + 1, !.pc = "done",
                                                !.outcome = "rejected", !.error = "send"]
               [] OTHER -> [near EXCEPT !.sends = @ + 1, !.pc = "done",
                                        !.outcome = "rejected",
                                        !.error = "No transaction hash found"]

\* withRetry(txStatus, { retryCount, delay }): one status query; after a
\* failed one it is run again until retryCount retries are used up
NearStatus(found) ==
  /\ near.pc = "status"
  /\ near' = CASE found -> [near EXCEPT !.polls = @ + 1, !.pc = "done",
                                        !.outcome = "resolved"]
               [] near.polls < RetryCount -> [near EXCEPT !.polls = @ + 1]
               [] OTHER -> [near EXCEPT !.polls = @ + 1, !.pc = "done",
                                        !.outcome = "rejected",
                                        !.error = "Transaction not found"]

(***************************************************************************)
(* Bitcoin getBalance: the adapter asks its BTCRpcAdapter.                 *)
(***************************************************************************)
\* the decimals getBalance reports for Bitcoin
BtcDecimals == 8

\* what the injected BTCRpcAdapter answers, in satoshis
SatoshiBalances == {0, 60, 100}

BtcIdle ==
  [pc |-> "idle", outcome |-> "idle", exists |-> FALSE, balance |-> 0,
   decimals |-> 0, error |-> ""]

\* BigInt(balance)
ToBigInt(balance) == balance

\* Bitcoin.getBalance(address) for an address with or without history
BtcGetBalance(exists) ==
  /\ btc.pc = "idle"
  /\ btc' = [BtcIdle EXCEPT !.pc = "fetch", !.outcome = "pending", !.exists = exists]

\* const balance = await this.btcRpcAdapter.getBalance(address); return
\* { balance: BigInt(balance), decimals: 8 }.  The adapter answers 0 for an
\* address the chain has never seen, or rejects when its request fails.
BtcFetchReturn(ok, balance) ==
  /\ btc.pc = "fetch"
  /\ btc.exists \/ balance = 0
  /\ btc' = IF ok
              THEN [btc EXCEPT !.pc = "done", !.outcome = "resolved",
                               !.balance = ToBigInt(balance),
                               !.decimals = BtcDecimals]
              ELSE [btc EXCEPT !.pc = "done", !.outcome = "rejected",
                               !.error = "Failed to fetch balance"]

(***************************************************************************)
(* The chain adapters' synchronous operations on an unsigned transaction:  *)
(* finalizeTransactionSigning, serializeTransaction, deserializeTransaction.*)
(*   "XRP"            the XRP adapter that signs with ECDSA                *)
(*   "XRP-Ed25519"    the XRP adapter that signs with Ed25519              *)
(*   "Solana"         the Solana adapter that adds the signature           *)
(*   "Solana-stub"    the Solana adapter whose finalization throws         *)
(*   "Solana-convert" the Solana adapter whose signature conversion throws  *)
(***************************************************************************)
Adapters == {"XRP", "XRP-Ed25519", "Solana", "Solana-stub", "Solana-convert"}

\* hex digits the r and s of a signature are written with
HexDigits == {0, 7, 8, 15}

\* the longest r or s, in hex digits
MaxHexLen == 4

HexStrings == UNION {[1..n -> HexDigits] : n \in 0..MaxHexLen}

\* the (r, s) pairs generateTxnSignature is applied to
HexPairs ==
  {p \in HexStrings \X HexStrings : Len(p[1]) + Len(p[2]) <= MaxHexLen + 2}

\* Buffer.from(hex, 'hex'): two digits make a byte, a last single digit is
\* dropped
BufferFromHex(digits) ==
  [i \in 1..(Len(digits) \div 2) |-> 16 * digits[2 * i - 1] + digits[2 * i]]

\* buffer.toString('hex'): lower-case digits
BufferToHex(bytes) ==
  [upper |-> FALSE,
   digits |-> [i \in 1..(2 * Len(bytes)) |->
                 IF i % 2 = 1 THEN bytes[(i + 1) \div 2] \div 16
                 ELSE bytes[i \div 2] % 16]]

\* String.prototype.toUpperCase
ToUpperCase(str) == [str EXCEPT !.upper = TRUE]

DerInteger_NoPad(buf) == buf

\* generateTxnSignature: if (rBuf[0] > 0x7f) rVal = Buffer.concat([0x00, rBuf])
DerInteger(buf) == IF Len(buf) > 0 /\ buf[1] > 127 THEN <<0>> \o buf ELSE buf

\* generateTxnSignature: the bytes written into derSignature
DerBytes(r, s) ==
  LET rVal == DerInteger(BufferFromHex(r))
      sVal == DerInteger(BufferFromHex(s))
      totalLength == 2 + Len(rVal) + 2 + Len(sVal)
  IN <<48, totalLength, 2, Len(rVal)>> \o rVal \o <<2, Len(sVal)>> \o sVal

\* generateTxnSignature(r, s, v)
generateTxnSignature(r, s, v) == ToUpperCase(BufferToHex(DerBytes(r, s)))

NoValue == [chain |-> "none"]

Ok(value) == [status |-> "ok", err |-> "", value |-> value]

Fail(err) == [status |-> "throw", err |-> err, value |-> NoValue]

NotCalled == [status |-> "none", err |-> "", value |-> NoValue]

InvalidSignaturesProvided == "Invalid signatures provided"

NotImplemented == "Not implemented"

PublicKeyRequired == "Public key is required for XRP transaction signing"

ExpectedNumberArray == "Invalid signature format: expected number array or Uint8Array"

InvalidEd25519Length == "Invalid Ed25519 signature length"

UnknownSigner == "unknown signer"

SignatureVerificationFailed == "Signature verification failed"

\* a public key string: its text and whether its letters are upper case
PubKey(text, upper) ==
  [text |-> text, upper |-> upper, prefix |-> "", firstByte |-> <<>>,
   hexLen |-> IF text = "" THEN 0 ELSE 66]

\* an Ed25519 public key string: what it starts with ("ED", "0x" or nothing),
\* the first byte of its hex digits, and how many hex digits follow the prefix
Ed25519PubKey(prefix, firstByte, hexLen) ==
  [text |-> "ed25519 key", upper |-> FALSE, prefix |-> prefix, firstByte |-> firstByte,
   hexLen |-> hexLen]

Ed25519PubKeys ==
  {Ed25519PubKey("", <<10, 11>>, 64), Ed25519PubKey("ED", <<10, 11>>, 64),
   Ed25519PubKey("0x", <<10, 11>>, 64), Ed25519PubKey("", <<14, 13>>, 64),
   Ed25519PubKey("", <<10, 11>>, 62)}

\* signingPubKey.replace(/^(0x|ED)/i, ''): a leading 0x or ED goes, and so do
\* the first two hex digits of a key without prefix when they are "ed"
StripKeyPrefix(key) ==
  IF key.prefix # "" THEN [key EXCEPT !.prefix = ""]
  ELSE IF key.firstByte = <<14, 13>>
    THEN [key EXCEPT !.firstByte = <<>>, !.hexLen = @ - 2]
  ELSE key

InvalidEd25519PublicKeyLength == "Invalid Ed25519 public key length"

EmptyString == PubKey("", FALSE)

PubKeys == {PubKey("02aa", FALSE), PubKey("02AA", TRUE)}

SequenceNumbers == {1, 123}

\* XRPUnsignedTransaction as the ECDSA adapter prepares it
XrpUnsigned(sequence, key) ==
  [transaction |-> [Account |-> "rFrom", Destination |-> "rTo", Amount |-> "1000000",
                    TransactionType |-> "Payment", Sequence |-> sequence,
                    SigningPubKey |-> [key EXCEPT !.upper = TRUE]],
   signingPubKey |-> key]

\* XRPUnsignedTransaction as the Ed25519 adapter prepares it: SigningPubKey ''
XrpEdUnsigned(sequence) ==
  [transaction |-> [Account |-> "rFrom", Destination |-> "rTo", Amount |-> "1000000",
                    TransactionType |-> "Payment", Sequence |-> sequence,
                    SigningPubKey |-> EmptyString],
   signingPubKey |-> EmptyString]

Blockhashes == {"hashA", "hashB"}

\* SolanaUnsignedTransaction: the Transaction object, and the fee payer and
\* blockhash copied from it
SolanaUnsigned(blockhash, transfers) ==
  [transaction |-> [feePayer |-> "payer", recentBlockhash |-> blockhash,
                    instructions |-> transfers, signatures |-> <<>>],
   feePayer |-> "payer", recentBlockhash |-> blockhash]

\* the unsigned transactions prepareTransactionForSigning of an adapter returns
UnsignedOf(adapter) ==
  CASE adapter = "XRP" -> {XrpUnsigned(n, k) : n \in SequenceNumbers, k \in PubKeys}
    [] adapter = "XRP-Ed25519" -> {XrpEdUnsigned(n) : n \in SequenceNumbers}
    [] OTHER -> {SolanaUnsigned(b, n) : b \in Blockhashes, n \in {0, 1}}

\* signatures as the normalizer returns them, and one broken Ed25519 one
RsvSignature(r, s, v) == [kind |-> "rsv", r |-> r, s |-> s, v |-> v, len |-> 0, valid |-> FALSE]

Ed25519Signature(len, valid) ==
  [kind |-> "ed25519", r |-> <<>>, s |-> <<>>, v |-> 0, len |-> len, valid |-> valid]

Signatures ==
  {RsvSignature(<<1, 0, 7, 15>>, <<8, 0>>, 27), RsvSignature(<<0, 0, 1, 7>>, <<15, 15>>, 28),
   Ed25519Signature(64, TRUE), Ed25519Signature(64, FALSE), Ed25519Signature(63, FALSE)}

\* the rsvSignatures argument: left out, a list, or a single signature object
NoSignatures == [t |-> "undefined", items |-> <<>>]

SignatureList(items) == [t |-> "list", items |-> items]

SignatureObject(sig) == [t |-> "object", items |-> <<sig>>]

SignatureArgs ==
  {NoSignatures} \cup {SignatureList(l) : l \in SeqsUpTo(Signatures, 1)}
    \cup {SignatureList(<<a, b>>) : a \in {RsvSignature(<<1, 0, 7, 15>>, <<8, 0>>, 27)},
                                    b \in Signatures}
    \cup {SignatureObject(g) : g \in Signatures}

\* the result of a call and the transaction object after it
Outcome(out, tx) == [out |-> out, tx |-> tx]

\* XRP (ECDSA) finalizeTransactionSigning
XrpFinalize(tx, sigs) ==
  Outcome(
    IF sigs.t = "undefined" THEN Fail(TypeError)
    ELSE IF sigs.t = "list" /\ Len(sigs.items) = 0 THEN Fail(InvalidSignaturesProvided)
    ELSE IF sigs.t = "object" \/ sigs.items[1].kind # "rsv" THEN Fail(TypeError)
    ELSE Ok([chain |-> "xrp-signed",
             transaction |-> [tx.transaction EXCEPT
                                !.SigningPubKey = ToUpperCase(tx.signingPubKey)],
             TxnSignature |-> generateTxnSignature(sigs.items[1].r, sigs.items[1].s,
                                                   sigs.items[1].v)]),
    tx)

\* XRP (Ed25519) finalizeTransactionSigning({ transaction, rsvSignatures,
\* publicKey })
XrpEdFinalize(tx, sigs, publicKey) ==
  LET chosen == IF publicKey.text # "" THEN publicKey ELSE tx.signingPubKey
      signingPubKey == StripKeyPrefix(chosen)
  IN Outcome(
    IF sigs.t = "undefined" THEN Fail(TypeError)
    ELSE IF sigs.t = "list" /\ Len(sigs.items) = 0 THEN Fail(InvalidSignaturesProvided)
    ELSE IF chosen.text = "" THEN Fail(PublicKeyRequired)
    ELSE IF signingPubKey.hexLen # 64 THEN Fail(InvalidEd25519PublicKeyLength)
    ELSE IF sigs.t = "object" THEN Fail(TypeError)
    ELSE IF sigs.items[1].kind # "ed25519" THEN Fail(ExpectedNumberArray)
    ELSE IF 2 * sigs.items[1].len # 128 THEN Fail(InvalidEd25519Length)
    ELSE Ok([chain |-> "xrp-signed",
             transaction |-> [tx.transaction EXCEPT
                                !.SigningPubKey =
                                  [ToUpperCase(signingPubKey) EXCEPT !.prefix = "ED"]],
             TxnSignature |-> [upper |-> TRUE, hexLen |-> 2 * sigs.items[1].len,
                               signature |-> sigs.items[1]]]),
    tx)

\* Solana finalizeTransactionSigning({ transaction, rsvSignatures,
\* senderAddress }): transaction.addSignature writes the signature into the
\* Transaction object it is given, then transaction.serialize() verifies it
SolanaFinalize(tx, sigs, senderKnown) ==
  IF sigs.t # "object" \/ sigs.items[1].kind # "ed25519" THEN Outcome(Fail(TypeError), tx)
  ELSE IF sigs.items[1].len # 64 THEN Outcome(Fail("signature length"), tx)
  ELSE IF ~senderKnown THEN Outcome(Fail(UnknownSigner), tx)
  ELSE LET signed == [tx EXCEPT !.transaction.signatures = <<sigs.items[1]>>] IN
       IF sigs.items[1].valid
         THEN Outcome(Ok([chain |-> "solana-signed", transaction |-> signed.transaction]),
                      signed)
         ELSE Outcome(Fail(SignatureVerificationFailed), signed)

SolanaStubFinalize_Returns(tx, sigs) ==
  Outcome(Ok([chain |-> "solana-signed", transaction |-> tx.transaction]), tx)

\* Solana finalizeTransactionSigning: throw new Error('Not implemented')
SolanaStubFinalize(tx, sigs) == Outcome(Fail(NotImplemented), tx)

\* Solana finalizeTransactionSigning: convertRSVToSolanaSignature(
\* rsvSignatures[0]) throws before the transaction is touched
SolanaConvertFinalize(tx, sigs) ==
  Outcome(IF sigs.t = "undefined" THEN Fail(TypeError) ELSE Fail(NotImplemented), tx)

\* the order in which the properties of an XRP transaction are written
XrpFieldOrder ==
  <<"Account", "Destination", "Amount", "TransactionType", "Sequence", "SigningPubKey">>

\* JSON.stringify of an object: its properties, in order, as key/value text
JsonStringifyObject(obj, order) ==
  LET keys == SelectSeq(order, LAMBDA k : k \in DOMAIN obj)
  IN [i \in 1..Len(keys) |-> [key |-> keys[i], value |-> obj[keys[i]]]]

\* JSON.parse of the text of an object
JsonParseObject(text) ==
  [k \in {text[i].key : i \in DOMAIN text} |->
     text[CHOOSE i \in DOMAIN text : text[i].key = k].value]

\* XRP serializeTransaction: JSON.stringify(transaction)
XrpSerialize(tx) ==
  [transaction |-> JsonStringifyObject(tx.transaction, XrpFieldOrder),
   signingPubKey |-> tx.signingPubKey]

XrpDeserialize_InnerOnly(serialized) ==
  [transaction |-> JsonParseObject(serialized.transaction),
   signingPubKey |-> EmptyString]

\* XRP deserializeTransaction: JSON.parse(serialized)
XrpDeserialize(serialized) ==
  [transaction |-> JsonParseObject(serialized.transaction),
   signingPubKey |-> serialized.signingPubKey]

\* new PublicKey('11111111111111111111111111111111')
DefaultFeePayer == "11111111111111111111111111111111"

\* Solana serializeTransaction: transaction.transaction.serialize({
\* requireAllSignatures: false }) in base64: the wire form of the Transaction
\* object alone
SolanaSerialize(tx) ==
  [base64 |-> <<tx.transaction.signatures, tx.transaction.feePayer,
                tx.transaction.recentBlockhash, tx.transaction.instructions>>]

\* Solana deserializeTransaction: Transaction.from(buffer), with the fee payer
\* and blockhash read back from it
SolanaDeserialize(serialized) ==
  LET transaction == [feePayer |-> serialized.base64[2],
                      recentBlockhash |-> serialized.base64[3],
                      instructions |-> serialized.base64[4],
                      signatures |-> serialized.base64[1]]
  IN [transaction |-> transaction,
      feePayer |-> IF transaction.feePayer = "" THEN DefaultFeePayer
                   ELSE transaction.feePayer,
      recentBlockhash |-> transaction.recentBlockhash]

IsXrp(adapter) == adapter \in {"XRP", "XRP-Ed25519"}

AdpIdle ==
  [adapter |-> "none", op |-> "none", tx |-> NoValue, prepared |-> NoValue,
   sigs |-> NoSignatures, out |-> NotCalled, restored |-> NoValue,
   publicKey |-> EmptyString]

\* the caller calls serializeTransaction on the transaction
AdpSerialize ==
  /\ adp.op = "prepared"
  /\ adp' = [adp EXCEPT !.op = "serializeTransaction",
                        !.out = Ok(IF IsXrp(adp.adapter) THEN XrpSerialize(adp.tx)
                                   ELSE SolanaSerialize(adp.tx))]

\* the caller calls deserializeTransaction on what serializeTransaction gave
AdpDeserialize ==
  /\ adp.op = "serializeTransaction"
  /\ adp' = [adp EXCEPT !.op = "deserializeTransaction",
                        !.restored =
                          IF IsXrp(adp.adapter) THEN XrpDeserialize(adp.out.value)
                          ELSE SolanaDeserialize(adp.out.value)]

\* prepareTransactionForSigning has returned tx to the caller
AdpPrepared(adapter, tx) ==
  /\ adp.op = "none"
  /\ tx \in UnsignedOf(adapter)
  /\ adp' = [AdpIdle EXCEPT !.adapter = adapter, !.op = "prepared", !.tx = tx,
                            !.prepared = tx]

\* the caller calls finalizeTransactionSigning on the transaction
AdpFinalize(sigs, publicKey, senderKnown) ==
  /\ adp.op = "prepared"
  /\ LET o == CASE adp.adapter = "XRP" -> XrpFinalize(adp.tx, sigs)
                [] adp.adapter = "XRP-Ed25519" -> XrpEdFinalize(adp.tx, sigs, publicKey)
                [] adp.adapter = "Solana" -> SolanaFinalize(adp.tx, sigs, senderKnown)
                [] adp.adapter = "Solana-stub" -> SolanaStubFinalize(adp.tx, sigs)
                [] OTHER -> SolanaConvertFinalize(adp.tx, sigs)
     IN adp' = [adp EXCEPT !.op = "finalizeTransactionSigning", !.sigs = sigs,
                           !.publicKey = publicKey, !.out = o.out, !.tx = o.tx]

\* the adapter calls generateTxnSignature(r, s, v) with some r and s
AdpGenerateTxnSignature(v) ==
  /\ adp.op = "none"
  /\ \E p \in HexPairs :
       adp' = [AdpIdle EXCEPT !.adapter = "XRP", !.op = "generateTxnSignature",
                              !.sigs = SignatureList(<<RsvSignature(p[1], p[2], v)>>),
                              !.out = Ok(generateTxnSignature(p[1], p[2], v))]

(***************************************************************************)
(* Key derivation: deriveChildPublicKey.  The curve stands for secp256k1,  *)
(* y^2 = x^3 + 7, over a small prime field; its group has prime order.     *)
(***************************************************************************)
\* new EC("secp256k1"): the field prime, the generator and the group order
Secp256k1 == [p |-> 43, g |-> [inf |-> FALSE, x |-> 2, y |-> 12], n |-> 31]

\* curve.point(null, null)
Infinity == [inf |-> TRUE, x |-> 0, y |-> 0]

RECURSIVE FromHex(_)
\* new BN(hex, 16); the empty string gives 0
FromHex(digits) ==
  IF Len(digits) = 0 THEN 0
  ELSE 16 * FromHex(SubSeq(digits, 1, Len(digits) - 1)) + digits[Len(digits)]

\* ec.curve.point(x, y): the coordinates in the field; the point is not
\* checked to be on the curve
CurvePoint(xHex, yHex) ==
  [inf |-> FALSE, x |-> FromHex(xHex) % Secp256k1.p, y |-> FromHex(yHex) % Secp256k1.p]

RedSub(a, b) == (a + Secp256k1.p - b) % Secp256k1.p

RedMul(a, b) == (a * b) % Secp256k1.p

RedInvm(a) == CHOOSE b \in 1..(Secp256k1.p - 1) : RedMul(a, b) = 1

PointNeg(pt) == IF pt.inf THEN pt ELSE [pt EXCEPT !.y = RedSub(0, pt.y)]

\* Point.dbl
PointDbl(pt) ==
  IF pt.inf THEN pt
  ELSE LET ys1 == (pt.y + pt.y) % Secp256k1.p IN
    IF ys1 = 0 THEN Infinity
    ELSE LET c == RedMul(RedMul(3, RedMul(pt.x, pt.x)), RedInvm(ys1))
             nx == RedSub(RedSub(RedMul(c, c), pt.x), pt.x)
             ny == RedSub(RedMul(c, RedSub(pt.x, nx)), pt.y)
         IN [inf |-> FALSE, x |-> nx, y |-> ny]

\* Point.add
PointAdd(p1, p2) ==
  IF p1.inf THEN p2
  ELSE IF p2.inf THEN p1
  ELSE IF p1 = p2 THEN PointDbl(p1)
  ELSE IF PointNeg(p1) = p2 THEN Infinity
  ELSE IF p1.x = p2.x THEN Infinity
  ELSE LET d == RedSub(p1.y, p2.y)
           c == IF d # 0 THEN RedMul(d, RedInvm(RedSub(p1.x, p2.x))) ELSE 0
           nx == RedSub(RedSub(RedMul(c, c), p1.x), p2.x)
           ny == RedSub(RedMul(c, RedSub(p1.x, nx)), p1.y)
       IN [inf |-> FALSE, x |-> nx, y |-> ny]

RECURSIVE PointMul(_, _)
\* Point.mul(k)
PointMul(pt, k) == IF k = 0 THEN Infinity ELSE PointAdd(PointMul(pt, k - 1), pt)

UndefinedPath == "undefined"

DerivationAccounts == {"alice.near", "bob.near"}

DerivationPaths == {UndefinedPath, "", "ethereum-1"}

\* sha3_256 of `near-mpc-recovery v0.1.0 epsilon derivation:${accountId},${path}`:
\* a fixed scalar for each text
sha3_256(accountId, path) ==
  CASE accountId = "alice.near" /\ path = "" -> 4
    [] accountId = "alice.near" /\ path = "ethereum-1" -> 9
    [] accountId = "bob.near" /\ path = "" -> 17
    [] OTHER -> 30

\* the length each coordinate is padded to
CoordinateHexLength == 64

\* the child point, or the point at infinity
ChildPoint(parentUncompressedPublicKeyHex, accountId, path) ==
  LET scalarHex == sha3_256(accountId, IF path = UndefinedPath THEN "" ELSE path)
      x == SubSeq(parentUncompressedPublicKeyHex, 3,
                  IF Len(parentUncompressedPublicKeyHex) < 66
                  THEN Len(parentUncompressedPublicKeyHex) ELSE 66)
      y == SubSeq(parentUncompressedPublicKeyHex, 67, Len(parentUncompressedPublicKeyHex))
      oldPublicKeyPoint == CurvePoint(x, y)
      scalarTimesG == PointMul(Secp256k1.g, scalarHex)
  IN PointAdd(oldPublicKeyPoint, scalarTimesG)

Derived(hex) == [status |-> "ok", err |-> "", hex |-> hex]

DeriveThrows(err) == [status |-> "throw", err |-> err, hex |-> <<>>]

deriveChildPublicKey_Counting(parentUncompressedPublicKeyHex, accountId, path) ==
  LET newPublicKeyPoint ==
        PointAdd(ChildPoint(parentUncompressedPublicKeyHex, accountId, path),
                 PointMul(Secp256k1.g, kdf.calls))
  IN IF newPublicKeyPoint.inf THEN DeriveThrows(TypeError)
     ELSE Derived(<<0, 4>> \o PadStart(ToHex(newPublicKeyPoint.x), CoordinateHexLength)
                          \o PadStart(ToHex(newPublicKeyPoint.y), CoordinateHexLength))

deriveChildPublicKey_NoPad(parentUncompressedPublicKeyHex, accountId, path) ==
  LET newPublicKeyPoint == ChildPoint(parentUncompressedPublicKeyHex, accountId, path)
  IN IF newPublicKeyPoint.inf THEN DeriveThrows(TypeError)
     ELSE Derived(<<0, 4>> \o ToHex(newPublicKeyPoint.x) \o ToHex(newPublicKeyPoint.y))

\* deriveChildPublicKey(parentUncompressedPublicKeyHex, accountId, path = ""):
\* getX() of the point at infinity reads a property of null
deriveChildPublicKey(parentUncompressedPublicKeyHex, accountId, path) ==
  LET newPublicKeyPoint == ChildPoint(parentUncompressedPublicKeyHex, accountId, path)
  IN IF newPublicKeyPoint.inf THEN DeriveThrows(TypeError)
     ELSE Derived(<<0, 4>> \o PadStart(ToHex(newPublicKeyPoint.x), CoordinateHexLength)
                          \o PadStart(ToHex(newPublicKeyPoint.y), CoordinateHexLength))

\* "04" + X + Y of a root key
UncompressedKey(x, y) ==
  <<0, 4>> \o PadStart(ToHex(x), CoordinateHexLength)
           \o PadStart(ToHex(y), CoordinateHexLength)

\* keyPoint.encodeCompressed("hex"): "02" or "03" + X, as generateBtcAddress
\* passes it
CompressedKey(x, odd) ==
  <<0, IF odd THEN 3 ELSE 2>> \o PadStart(ToHex(x), CoordinateHexLength)

RootKeys ==
  {UncompressedKey(x, y) : x \in 0..(Secp256k1.p - 1), y \in 0..(Secp256k1.p - 1)}
    \cup {CompressedKey(x, odd) : x \in 0..(Secp256k1.p - 1), odd \in BOOLEAN}

\* a NEAR public key string "<curve>:<base58>": the text before the colon,
\* whether there is a colon, and the bytes the base58 part decodes to, in hex
NajKey(curve, colon, data) == [curve |-> curve, colon |-> colon, data |-> data]

\* the points of the curve that stand for root keys
RootPoints ==
  {q \in (0..(Secp256k1.p - 1)) \X (0..(Secp256k1.p - 1)) :
     (q[2] * q[2]) % Secp256k1.p = (q[1] * q[1] * q[1] + 7) % Secp256k1.p}

\* well-formed root keys, and malformed ones: an Ed25519 key of 32 bytes, a
\* secp256k1 key cut to 32 bytes, one with a byte too many, one without colon
WellFormedKeys ==
  {NajKey("secp256k1", TRUE, SubSeq(UncompressedKey(q[1], q[2]), 3, 130)) :
     q \in RootPoints}

MalformedKeys ==
  {NajKey("ed25519", TRUE, PadStart(ToHex(9), 64)),
   NajKey("secp256k1", TRUE, PadStart(ToHex(7), 64)),
   NajKey("secp256k1", TRUE, PadStart(ToHex(7), 130)),
   NajKey("secp256k1", FALSE, <<>>)}

\* najPublicKeyStrToUncompressedHexPoint: "04" + hex of
\* baseDecode(najPublicKeyStr.split(":")[1]); without a colon baseDecode is
\* handed undefined and throws
najPublicKeyStrToUncompressedHexPoint(najPublicKeyStr) ==
  IF ~najPublicKeyStr.colon THEN DeriveThrows(TypeError)
  ELSE Derived(<<0, 4>> \o najPublicKeyStr.data)

\* keccak256(data) of viem: "0x" and 64 lower-case hex digits; the digits are
\* a fixed function of the bytes standing for the hash
keccak256(data) ==
  [prefix |-> "0x", upper |-> FALSE,
   digits |-> [i \in 1..64 |-> (SumBytes(data) + i * (Len(data) + 1)) % 16]]

\* String.prototype.slice(-40) of a string longer than 40 characters
SliceLast40(str) == SubSeq(str.digits, Len(str.digits) - 39, Len(str.digits))

uncompressedHexPointToEvmAddress_WithPrefixByte(uncompressedHexPoint) ==
  LET hash == keccak256(BufferFromHex(uncompressedHexPoint))
  IN [prefix |-> "0x", upper |-> hash.upper, digits |-> SliceLast40(hash)]

\* uncompressedHexPointToEvmAddress: `0x${hash.slice(-40)}`
uncompressedHexPointToEvmAddress(uncompressedHexPoint) ==
  LET data == BufferFromHex(SubSeq(uncompressedHexPoint, 3, Len(uncompressedHexPoint)))
      hash == keccak256(data)
  IN [prefix |-> "0x", upper |-> hash.upper, digits |-> SliceLast40(hash)]

\* uncompressedHexPointToBtcAddress and uncompressedHexPointToSegwitAddress:
\* an encoding of a hash of the key bytes under the network byte or prefix
BtcAddress(uncompressedHexPoint, network) ==
  [prefix |-> network, upper |-> FALSE,
   digits |-> SliceLast40(keccak256(BufferFromHex(uncompressedHexPoint)))]

NoAddress == [prefix |-> "", upper |-> FALSE, digits |-> <<>>]

\* enum AddressType
AddressType ==
  {"evm", "bitcoin-mainnet-legacy", "bitcoin-mainnet-segwit",
   "bitcoin-testnet-legacy", "bitcoin-testnet-segwit"}

\* what a caller can pass as addressType: the enum, another string, and the
\* empty string (undefined behaves like it)
AddressTypeArgs == AddressType \cup {"unsupported-type", ""}

\* the two revisions of generateAddress
KdfRevisions == {"kdf.ts", "part_013"}

\* the address types a revision produces an address for
Supported(rev) == IF rev = "kdf.ts" THEN {"evm"} ELSE AddressType

AddressFailed(message, value) ==
  [status |-> "throw", err |-> <<message, value>>, address |-> NoAddress,
   publicKey |-> <<>>]

AddressReturned(address, publicKey) ==
  [status |-> "ok", err |-> <<"", "">>, address |-> address, publicKey |-> publicKey]

UnsupportedAddressType == "Unsupported address type: "

AddressTypeRequired == "addressType is required"

generateAddress_DefaultsToEvm(rev, publicKey, accountId, path, addressType) ==
  LET parent == najPublicKeyStrToUncompressedHexPoint(publicKey)
      child == deriveChildPublicKey(parent.hex, accountId, path)
  IN IF parent.status # "ok" THEN AddressFailed(parent.err, "")
     ELSE IF child.status # "ok" THEN AddressFailed(child.err, "")
     ELSE IF addressType = "" THEN AddressFailed(AddressTypeRequired, "")
     ELSE AddressReturned(uncompressedHexPointToEvmAddress(child.hex), child.hex)

\* generateAddress({ publicKey, accountId, path, addressType }) of a revision
generateAddress(rev, publicKey, accountId, path, addressType) ==
  LET parent == najPublicKeyStrToUncompressedHexPoint(publicKey)
      child == deriveChildPublicKey(parent.hex, accountId, path)
      childPublicKey == child.hex
  IN IF parent.status # "ok" THEN AddressFailed(parent.err, "")
     ELSE IF child.status # "ok" THEN AddressFailed(child.err, "")
     ELSE IF addressType = "" THEN AddressFailed(AddressTypeRequired, "")
     ELSE IF addressType \notin Supported(rev)
       THEN AddressFailed(UnsupportedAddressType, addressType)
     ELSE AddressReturned(
            CASE addressType = "evm" -> uncompressedHexPointToEvmAddress(childPublicKey)
              [] addressType = "bitcoin-mainnet-legacy" -> BtcAddress(childPublicKey, "00")
              [] addressType = "bitcoin-mainnet-segwit" -> BtcAddress(childPublicKey, "bc")
              [] addressType = "bitcoin-testnet-legacy" -> BtcAddress(childPublicKey, "6f")
              [] OTHER -> BtcAddress(childPublicKey, "tb"),
            childPublicKey)

KdfIdle ==
  [op |-> "none", calls |-> 0, rootKey |-> <<>>, accountId |-> "", path |-> "",
   out |-> DeriveThrows(""), again |-> DeriveThrows(""),
   rev |-> "none", publicKey |-> NajKey("", FALSE, <<>>), addressType |-> "",
   result |-> AddressFailed("", "")]

\* a caller asks a revision of generateAddress for an address
KdfGenerateAddress ==
  /\ kdf.op = "none"
  /\ \E rev \in KdfRevisions, publicKey \in WellFormedKeys \cup MalformedKeys,
        accountId \in DerivationAccounts, path \in DerivationPaths \ {UndefinedPath},
        addressType \in AddressTypeArgs :
       kdf' = [kdf EXCEPT !.op = "generateAddress", !.calls = 1, !.rev = rev,
                          !.publicKey = publicKey, !.accountId = accountId,
                          !.path = path, !.addressType = addressType,
                          !.result = generateAddress(rev, publicKey, accountId, path,
                                                     addressType)]

\* a caller derives a child key
KdfDerive ==
  /\ kdf.op = "none"
  /\ \E rootKey \in RootKeys, accountId \in DerivationAccounts, path \in DerivationPaths :
       kdf' = [kdf EXCEPT !.op = "derived", !.calls = 1, !.rootKey = rootKey,
                          !.accountId = accountId, !.path = path,
                          !.out = deriveChildPublicKey(rootKey, accountId, path)]

\* a caller derives the child key of the same root key, owner and path again
KdfDeriveAgain ==
  /\ kdf.op = "derived"
  /\ kdf' = [kdf EXCEPT !.op = "derived again", !.calls = 2,
                        !.again = deriveChildPublicKey(kdf.rootKey, kdf.accountId, kdf.path)]

(***************************************************************************)
(* Specifications.                                                         *)
(***************************************************************************)
AllResponses == UNION {ResponsesFor(p) : p \in PayloadValues}

OnlyNorm == UNCHANGED <<cl, xrp, near, btc, adp, kdf>>

OnlyCl == UNCHANGED <<norm, xrp, near, btc, adp, kdf>>

OnlyXrp == UNCHANGED <<norm, cl, near, btc, adp, kdf>>

OnlyNear == UNCHANGED <<norm, cl, xrp, btc, adp, kdf>>

OnlyBtc == UNCHANGED <<norm, cl, xrp, near, adp, kdf>>

OnlyAdp == UNCHANGED <<norm, cl, xrp, near, btc, kdf>>

OnlyKdf == UNCHANGED <<norm, cl, xrp, near, btc, adp>>

InitXrp == xrp \in {[XrpIdle EXCEPT !.version = v] : v \in XrpVersions}

\* the normalizer on every signer response
InitNormalizer ==
  InitNorm /\ cl = ClIdle /\ xrp = XrpIdle /\ near = NearIdle /\ btc = BtcIdle
    /\ adp = AdpIdle /\ kdf = KdfIdle

NextNorm ==
  \/ NormalizeResponse /\ OnlyNorm
  \/ ConvertToRSV /\ OnlyNorm

SpecNorm == InitNormalizer /\ [][NextNorm]_vars

\* one call on a contract client
InitClient ==
  norm = NormIdle /\ cl = ClIdle /\ xrp = XrpIdle /\ near = NearIdle /\ btc = BtcIdle
    /\ adp = AdpIdle /\ kdf = KdfIdle

NextClient ==
  \/ \E op \in ViewOps : RetryView(op) /\ OnlyCl
  \/ \E p \in PayloadValues, acct \in AccountIds : RetrySign(p, acct) /\ OnlyCl
  \/ \E how \in ViewOutcomes : ViewAttempt(how) /\ OnlyCl
  \/ \E rejects \in BOOLEAN, resp \in AllResponses : SignSubmit(rejects, resp) /\ OnlyCl
  \/ \E ps \in PayloadLists, path \in Paths, kt \in KeyTypes :
       ProviderSign(ps, path, kt) /\ OnlyCl
  \/ \E i \in 1..MaxPayloads, resp \in AllResponses : SignerRespond(i, resp) /\ OnlyCl
  \/ SignerReject /\ OnlyCl
  \/ ProviderSignCollect /\ OnlyCl
  \/ \E op \in ViewOps : ProviderView(op) /\ OnlyCl
  \/ \E ok \in BOOLEAN : ProviderQueryReturn(ok) /\ OnlyCl
  \/ \E p \in PayloadValues : HelperSign(p) /\ OnlyCl
  \/ \E how \in HelperOutcomes : HelperSignReturn(how) /\ OnlyCl

SpecClient == InitClient /\ [][NextClient]_vars

\* one call on the client whose calls run under withRetry
NextRetry ==
  \/ \E op \in ViewOps : RetryView(op) /\ OnlyCl
  \/ \E p \in PayloadValues, acct \in AccountIds : RetrySign(p, acct) /\ OnlyCl
  \/ \E how \in ViewOutcomes : ViewAttempt(how) /\ OnlyCl
  \/ \E rejects \in BOOLEAN, resp \in AllResponses : SignSubmit(rejects, resp) /\ OnlyCl

\* the promise of the operation settles and the timer of the delay fires
RetryProgress ==
  \/ \E how \in ViewOutcomes : ViewAttempt(how) /\ OnlyCl
  \/ \E rejects \in BOOLEAN, resp \in AllResponses : SignSubmit(rejects, resp) /\ OnlyCl

SpecRetry == InitClient /\ [][NextRetry]_vars /\ WF_vars(RetryProgress)

\* the sign requests of the two clients that build one transaction per payload
NextRequest ==
  \/ \E ps \in PayloadLists, path \in Paths, kt \in KeyTypes :
       ProviderSign(ps, path, kt) /\ OnlyCl
  \/ \E i \in 1..MaxPayloads, resp \in AllResponses : SignerRespond(i, resp) /\ OnlyCl
  \/ SignerReject /\ OnlyCl
  \/ ProviderSignCollect /\ OnlyCl
  \/ \E ps \in PayloadLists, path \in Paths, kt \in NearKeyTypes :
       NearContractSign(ps, path, kt) /\ OnlyCl
  \/ \E ok \in BOOLEAN : NearContractSignReturn(ok) /\ OnlyCl

SpecRequest == InitClient /\ [][NextRequest]_vars

\* overlapping requests on one XRP adapter
InitXrpAdapter ==
  norm = NormIdle /\ cl = ClIdle /\ InitXrp /\ near = NearIdle /\ btc = BtcIdle
    /\ adp = AdpIdle /\ kdf = KdfIdle

NextXrp ==
  \/ \E r \in Req, kind \in XrpKinds : XrpStart(r, kind) /\ OnlyXrp
  \/ \E r \in Req, ok \in BOOLEAN : XrpConnect(r, ok) /\ OnlyXrp
  \/ \E r \in Req, reply \in AccountInfoReplies : XrpRequest(r, reply) /\ OnlyXrp
  \/ \E r \in Req, ok \in BOOLEAN : XrpFinally(r, ok) /\ OnlyXrp
  \/ \E r \in Req, ok \in BOOLEAN : XrpBalanceDisconnect(r, ok) /\ OnlyXrp
  \/ \E r \in Req, ok \in BOOLEAN : XrpCatchDisconnect(r, ok) /\ OnlyXrp
  \/ \E r \in Req, how \in PrepareOutcomes : XrpAutofill(r, how) /\ OnlyXrp
  \/ \E r \in Req, ok \in BOOLEAN : XrpPrepareRequest(r, ok) /\ OnlyXrp
  \/ \E r \in Req, how \in PrepareOutcomes : XrpPrepareDisconnect(r, how) /\ OnlyXrp
  \/ \E r \in Req, how \in SubmitOutcomes : XrpSubmit(r, how) /\ OnlyXrp
  \/ \E r \in Req, ok \in BOOLEAN : XrpBroadcastDisconnect(r, ok) /\ OnlyXrp

SpecXrp == InitXrpAdapter /\ [][NextXrp]_vars

\* balance queries: XRP getBalance requests and a Bitcoin getBalance
NextBalance ==
  \/ \E r \in Req : XrpStart(r, "getBalance") /\ OnlyXrp
  \/ \E r \in Req, ok \in BOOLEAN : XrpConnect(r, ok) /\ OnlyXrp
  \/ \E r \in Req, reply \in AccountInfoReplies : XrpRequest(r, reply) /\ OnlyXrp
  \/ \E r \in Req, ok \in BOOLEAN : XrpFinally(r, ok) /\ OnlyXrp
  \/ \E r \in Req, ok \in BOOLEAN : XrpBalanceDisconnect(r, ok) /\ OnlyXrp
  \/ \E r \in Req, ok \in BOOLEAN : XrpCatchDisconnect(r, ok) /\ OnlyXrp
  \/ \E exists \in BOOLEAN : BtcGetBalance(exists) /\ OnlyBtc
  \/ \E ok \in BOOLEAN, balance \in SatoshiBalances :
       BtcFetchReturn(ok, balance) /\ OnlyBtc

SpecBalance == InitXrpAdapter /\ [][NextBalance]_vars

\* submissions: XRP broadcastTx requests and a NEAR sendTransactionUntil
NextSubmit ==
  \/ \E r \in Req : XrpStart(r, "broadcastTx") /\ OnlyXrp
  \/ \E r \in Req, ok \in BOOLEAN : XrpConnect(r, ok) /\ OnlyXrp
  \/ \E r \in Req, how \in SubmitOutcomes : XrpSubmit(r, how) /\ OnlyXrp
  \/ \E r \in Req, ok \in BOOLEAN : XrpBroadcastDisconnect(r, ok) /\ OnlyXrp
  \/ NearCall /\ OnlyNear
  \/ \E ok \in BOOLEAN : NearSetup(ok) /\ OnlyNear
  \/ \E how \in NearSteps : NearSend(how) /\ OnlyNear
  \/ \E found \in BOOLEAN : NearStatus(found) /\ OnlyNear

SpecSubmit == InitXrpAdapter /\ [][NextSubmit]_vars

\* the synchronous operations of an adapter on a prepared transaction
NextAdapter ==
  \/ \E adapter \in Adapters, tx \in UNION {UnsignedOf(a) : a \in Adapters} :
       AdpPrepared(adapter, tx) /\ OnlyAdp
  \/ \E sigs \in SignatureArgs, publicKey \in PubKeys \cup Ed25519PubKeys \cup {EmptyString},
        senderKnown \in BOOLEAN :
       AdpFinalize(sigs, publicKey, senderKnown) /\ OnlyAdp
  \/ AdpSerialize /\ OnlyAdp
  \/ AdpDeserialize /\ OnlyAdp

SpecAdapter == InitClient /\ [][NextAdapter]_vars

NextDer ==
  \E v \in {27, 28} : AdpGenerateTxnSignature(v) /\ OnlyAdp

SpecDer == InitClient /\ [][NextDer]_vars

NextKdf ==
  \/ KdfDerive /\ OnlyKdf
  \/ KdfDeriveAgain /\ OnlyKdf

SpecKdf == InitClient /\ [][NextKdf]_vars

NextAddress == KdfGenerateAddress /\ OnlyKdf

SpecAddress == InitClient /\ [][NextAddress]_vars

(***************************************************************************)
(* The properties.                                                         *)
(***************************************************************************)
Done(q) == q.outcome \in {"resolved", "rejected"}

\* C1: a call to the contract client's sign submits each signing request to
\* the remote signer at most once; a failed or rejected request is reported to
\* the caller and the client never runs the sign call again on its own.
C1_SignSubmittedAtMostOnce ==
  cl.op = "sign" => \A k \in 1..Len(cl.submits) : cl.submits[k] <= 1

\* C2: every XRP adapter request that opened a ledger connection has closed
\* it by the time the request resolves or rejects, on every exit path.
C2_ConnectionClosedOnExit ==
  \A r \in Req : (Done(xrp.req[r]) /\ xrp.req[r].opened) => xrp.req[r].closed

C4_SignResolvesFullyFormed ==
  (cl.op = "sign" /\ cl.outcome = "resolved") =>
    /\ Len(cl.result) = Len(cl.payloads)
    /\ \A i \in 1..Len(cl.result) :
         cl.result[i].status = "ok" /\ cl.result[i].kind # "undefined"

\* C5: broadcastTx and sendTransactionUntil submit the signed transaction to
\* the network at most once; a submission that failed or was rejected makes
\* the call reject and is never submitted again.
C5_SubmittedAtMostOnce ==
  /\ near.sends <= 1
  /\ (near.error = "send" => near.outcome = "rejected" /\ near.polls = 0)
  /\ \A r \in Req :
       /\ xrp.req[r].submits <= 1
       /\ xrp.req[r].submitFailed =>
            xrp.req[r].outcome = "rejected" /\ xrp.req[r].error = FailedBroadcast

\* a broadcastTx whose submission the network refused and a
\* sendTransactionUntil whose send failed, each after exactly one submission
C5_FailedSubmissionReported ==
  /\ \E r \in Req :
       /\ xrp.req[r].kind = "broadcastTx" /\ xrp.req[r].submitFailed
       /\ xrp.req[r].outcome = "rejected" /\ xrp.req[r].submits = 1
  /\ near.error = "send" /\ near.outcome = "rejected" /\ near.sends = 1

\* C6: requests on one adapter instance share no mutable state: while a
\* request is between its connect and its disconnect, the connection it uses
\* stays open whatever another request on the same instance does.
C6_ConnectionNotChangedByOthers ==
  \A r \in Req :
    xrp.req[r].pc \in {"request", "autofill", "submit", "account_info", "ledger"} =>
      xrp.connected[ClientOf(xrp.version, r)]

\* the delays a top-level call has waited between its attempts
Waits(c) == IF c.stack = <<>> THEN <<>> ELSE c.stack[1].delays

\* C7: each read-only query of the contract client that fails is run again
\* after an exponentially increasing delay, a bounded number of times: a query
\* is given up only after Retries attempts, with the waits 1000, 2000, ...
\* between them.
C7_ReadOnlyQueriesRetried ==
  cl.op \in ViewOps =>
    /\ cl.queries <= Retries
    /\ \A k \in 1..Len(Waits(cl)) : Waits(cl)[k] = BaseDelay * Pow2(k - 1)
    /\ cl.outcome = "rejected" =>
         cl.queries = Retries /\ Len(Waits(cl)) = Retries - 1

IsNearNearShape(sig) ==
  sig.kind = "object" /\ sig.big_r.t = "point" /\ sig.s.t = "scalar"
    /\ sig.recovery_id.t = "number"

IsChainSigNearShape(sig) ==
  sig.kind = "object" /\ sig.big_r.t = "string" /\ sig.s.t = "string"
    /\ sig.recovery_id.t = "number"

IsChainSigEvmShape(sig) ==
  sig.kind = "object" /\ sig.bigR.t = "xy" /\ sig.s.t = "bigint"
    /\ sig.recoveryId.t = "number"

IsEd25519Shape(sig) ==
  sig.kind = "object" /\ sig.scheme = "Ed25519" /\ sig.signature.t = "bytes"

\* the responses that are exactly one of the three ECDSA shapes, with the
\* recovery id each carries
KnownShapes ==
  {[sig |-> NearNearMpcSignature(pt, sc, rid), rid |-> rid] :
     pt \in AffinePoints, sc \in Scalars, rid \in RecoveryIds}
    \cup {[sig |-> ChainSigNearMpcSignature(pt, sc, rid), rid |-> rid] :
            pt \in AffinePoints, sc \in Scalars, rid \in RecoveryIds}
    \cup {[sig |-> ChainSigEvmMpcSignature(x, s, rid), rid |-> rid] :
            x \in BigInts, s \in BigInts, rid \in RecoveryIds}

\* C9: for each of the three known signer response shapes the normalizer
\* returns {r, s, v} with v = recovery id + 27, which is 27 or 28.
C9_KnownShapesNormalized ==
  norm.via # "none" =>
    \A k \in KnownShapes :
      norm.sig = k.sig =>
        /\ norm.out.status = "ok" /\ norm.out.kind = "rsv"
        /\ norm.out.v = k.rid + 27
        /\ norm.out.v \in {27, 28}

\* the nested affine-point/scalar shape with recovery id 1 was normalized
C9_NestedShapeNormalized ==
  /\ norm.via # "none"
  /\ \E k \in KnownShapes : norm.sig = k.sig /\ k.rid = 1
  /\ IsNearNearShape(norm.sig)
  /\ norm.out.status = "ok"

\* C10: a signer response whose shape is none of the recognized shapes makes
\* normalization fail with the unrecognized-signature-format error, and no
\* signature value is returned for it.
C10_UnrecognizedShapeFails ==
  (/\ norm.via # "none"
   /\ ~IsNearNearShape(norm.sig)
   /\ ~IsChainSigNearShape(norm.sig)
   /\ ~IsChainSigEvmShape(norm.sig)
   /\ ~(norm.via = "responseToMpcSignature" /\ IsEd25519Shape(norm.sig))) =>
    norm.out.status = "throw" /\ norm.out.err = InvalidSignatureFormat

\* C11: when an RPC or network call fails during prepareTransactionForSigning
\* the call rejects with the preparation-failed error, that error carries the
\* original failure as its cause, and no transaction or hash is returned.
C11_PreparationFailureWrapsCause ==
  \A r \in Req :
    LET q == xrp.req[r] IN
    (q.kind = "prepareTransactionForSigning" /\ q.failure = NetworkFailure) =>
      /\ q.outcome = "rejected" /\ q.error = FailedPrepare
      /\ q.cause = q.failure
      /\ q.hashes = 0

\* C12: when the chain rejects a broadcast, broadcastTx rejects with a
\* broadcast-failed error that contains the chain's rejection reason verbatim:
\* for XRP the message or the cause of the error names the engine result.
C12_RejectionReasonReported ==
  \A r \in Req :
    LET q == xrp.req[r] IN
    (q.kind = "broadcastTx" /\ Done(q) /\ q.engine \in EngineResults \ AcceptedResults) =>
      /\ q.outcome = "rejected"
      /\ q.error = TransactionFailed(q.engine) \/ q.cause = TransactionFailed(q.engine)

\* C13: for every chain adapter, finalizeTransactionSigning called with a
\* missing or an empty signature list fails with the no-signature-provided
\* error and returns no signed transaction.
C13_NoSignatureProvided ==
  (/\ adp.op = "finalizeTransactionSigning"
   /\ adp.sigs = NoSignatures \/ adp.sigs = SignatureList(<<>>)) =>
    adp.out.status = "throw" /\ adp.out.err = InvalidSignaturesProvided

SolanaAdapters == {"Solana", "Solana-stub", "Solana-convert"}

C15_UnsignedTransactionNotModified ==
  adp.op # "none" => adp.tx = adp.prepared

RECURSIVE StripLeadingZeros(_)
StripLeadingZeros(buf) ==
  IF Len(buf) > 0 /\ buf[1] = 0 THEN StripLeadingZeros(Tail(buf)) ELSE buf

\* the DER contents the specification describes for an integer: leading zero
\* bytes stripped, and a single 0x00 put in front when the first remaining
\* byte has its high bit set
StrippedInteger(buf) ==
  LET rest == StripLeadingZeros(buf)
  IN IF Len(rest) > 0 /\ rest[1] > 127 THEN <<0>> \o rest ELSE rest

StrippedDer(r, s) ==
  LET rVal == StrippedInteger(BufferFromHex(r))
      sVal == StrippedInteger(BufferFromHex(s))
  IN <<48, 2 + Len(rVal) + 2 + Len(sVal), 2, Len(rVal)>> \o rVal
       \o <<2, Len(sVal)>> \o sVal

\* the r and s generateTxnSignature was called with
GivenR == adp.sigs.items[1].r

GivenS == adp.sigs.items[1].s

\* C17: XRP finalization encodes (r, s) as 30 <len> 02 <rlen> r 02 <slen> s in
\* upper-case hex, where r and s have their leading zero bytes stripped unless
\* the first remaining byte has its high bit set, in which case one 0x00 byte
\* is put in front.
C17_DerStripsLeadingZeros ==
  adp.op = "generateTxnSignature" =>
    adp.out.value = [upper |-> TRUE, digits |-> BufferToHex(StrippedDer(GivenR, GivenS)).digits]

\* the value of a byte string read as an unsigned big-endian number
RECURSIVE Unsigned(_)
Unsigned(buf) ==
  IF Len(buf) = 0 THEN 0
  ELSE 256 * Unsigned(SubSeq(buf, 1, Len(buf) - 1)) + buf[Len(buf)]

RECURSIVE Pow256(_)
Pow256(n) == IF n = 0 THEN 1 ELSE 256 * Pow256(n - 1)

\* the value of the contents of a DER INTEGER: two's complement, big-endian
DerIntegerValue(buf) ==
  IF Len(buf) > 0 /\ buf[1] > 127 THEN Unsigned(buf) - Pow256(Len(buf))
  ELSE Unsigned(buf)

\* reading 30 <len> 02 <rlen> r 02 <slen> s back; ok says the lengths fit
DerDecode(der) ==
  LET rLen == der[4]
      sLen == der[6 + rLen]
  IN [ok |-> /\ der[1] = 48 /\ der[3] = 2 /\ der[5 + rLen] = 2
             /\ der[2] = 2 + rLen + 2 + sLen
             /\ Len(der) = 2 + der[2],
      r |-> DerIntegerValue(SubSeq(der, 5, 4 + rLen)),
      s |-> DerIntegerValue(SubSeq(der, 7 + rLen, 6 + rLen + sLen))]

WholeBytes(hex) == Len(hex) % 2 = 0

\* C18: decoding the DER signature produced from (r, s) gives back the numbers
\* r and s, for r and s given as whole bytes, also when one starts with a byte
\* that has its high bit set (encoded with a 0x00 in front) and when one
\* starts with a 0x00 byte (encoded as it is).
C18_DerRoundTrip ==
  (adp.op = "generateTxnSignature" /\ WholeBytes(GivenR) /\ WholeBytes(GivenS)) =>
    LET decoded == DerDecode(BufferFromHex(adp.out.value.digits))
    IN /\ decoded.ok
       /\ decoded.r = Unsigned(BufferFromHex(GivenR))
       /\ decoded.s = Unsigned(BufferFromHex(GivenS))

\* a signature whose r starts with 0xff and whose s starts with 0x00 has been
\* encoded
C18_PaddedAndZeroEncoded ==
  /\ adp.op = "generateTxnSignature"
  /\ GivenR = <<15, 15>>
  /\ GivenS = <<0, 0, 8, 0>>
  /\ adp.out.value.upper

\* the coordinates written in a derived key
KeyX == FromHex(SubSeq(kdf.out.hex, 3, 66))

KeyY == FromHex(SubSeq(kdf.out.hex, 67, Len(kdf.out.hex)))

\* the key is 04, X and Y, 130 hex digits, and names the child point
WellFormedKey ==
  /\ kdf.out.status = "ok"
  /\ Len(kdf.out.hex) = 130
  /\ SubSeq(kdf.out.hex, 1, 2) = <<0, 4>>
  /\ ChildPoint(kdf.rootKey, kdf.accountId, kdf.path) = [inf |-> FALSE, x |-> KeyX, y |-> KeyY]

\* C19 as stated: for every root key, owner id and path, the derived child key
\* is 04 followed by X and Y, each left-padded to exactly 32 bytes, so the
\* output always has 130 hex characters.
C19_AlwaysPaddedKey ==
  kdf.op # "none" => WellFormedKey

\* C19, amended: whenever the root key plus the offset point of (owner id,
\* path) is not the point at infinity, the derived child key is 04 followed by
\* X and Y, each left-padded to exactly 32 bytes (130 hex characters); when it
\* is the point at infinity, deriveChildPublicKey throws a TypeError.
C19_PaddedKeyUnlessInfinity ==
  kdf.op # "none" =>
    IF ChildPoint(kdf.rootKey, kdf.accountId, kdf.path).inf
    THEN kdf.out = DeriveThrows(TypeError)
    ELSE WellFormedKey

\* a key whose coordinates both need leading zeros has been derived
C19_LeadingZerosDerived ==
  /\ kdf.op = "derived"
  /\ kdf.out.status = "ok"
  /\ kdf.out.hex[3] = 0 /\ kdf.out.hex[67] = 0
  /\ KeyX > 0 /\ KeyY > 0

C21_Ed25519PassedThrough ==
  (norm.via = "responseToMpcSignature" /\ IsEd25519Shape(norm.sig)) =>
    /\ norm.out.status = "ok"
    /\ norm.out.kind = "ed25519"
    /\ norm.out.signature = norm.sig.signature.v
    /\ Len(norm.out.signature) = Len(norm.sig.signature.v)

\* the Ed25519 response of types.ts has been normalized
C21_Ed25519Normalized ==
  /\ norm.via = "responseToMpcSignature"
  /\ \E bytes \in SignatureBytes : norm.sig = Ed25519Response(bytes)
  /\ norm.out.kind = "ed25519"
  /\ Len(norm.out.signature) > 0

\* C22: every sign request sent to the remote signer carries the payload, the
\* derivation path and a key domain, and the key domain is 0 when the key
\* scheme is ECDSA and 1 when it is EdDSA.
C22_RequestCarriesKeyDomain ==
  cl.op = "sign" =>
    \A i \in 1..Len(cl.transactions) :
      LET request == cl.transactions[i] IN
      /\ request.payload = cl.payloads[i]
      /\ request.path \in Paths
      /\ "domain_id" \in DOMAIN request
      /\ request.domain_id = IF request.keyType \in {"Eddsa", "ed25519"} THEN 1 ELSE 0

\* the key generateAddress derives from before it looks at the address type
DerivedFirst ==
  LET parent == najPublicKeyStrToUncompressedHexPoint(kdf.publicKey)
  IN parent.status = "ok"
       /\ deriveChildPublicKey(parent.hex, kdf.accountId, kdf.path).status = "ok"

\* C23: requesting an address type that is not supported fails and returns no
\* address; when a type was named and the child key of the root key could be
\* derived, the failure is the unsupported-address-type error and its message
\* names the requested value.
C23_UnsupportedTypeNamed ==
  (kdf.op = "generateAddress" /\ kdf.addressType \notin Supported(kdf.rev)) =>
    /\ kdf.result.status = "throw"
    /\ kdf.result.address = NoAddress
    /\ (kdf.addressType # "" /\ DerivedFirst) =>
         kdf.result.err = <<UnsupportedAddressType, kdf.addressType>>

\* an address type outside the enum was requested with a well-formed root key
C23_UnsupportedRequested ==
  /\ kdf.op = "generateAddress"
  /\ kdf.publicKey \in WellFormedKeys
  /\ kdf.addressType = "unsupported-type"
  /\ kdf.result.err = <<UnsupportedAddressType, "unsupported-type">>

\* C24: key and address derivation fail with an invalid-key-format error
\* whenever the root key has the wrong length or the wrong prefix; a malformed
\* root key never yields a derived key or an address.
C24_MalformedKeyRejected ==
  (kdf.op = "generateAddress" /\ kdf.publicKey \in MalformedKeys) =>
    /\ kdf.result.status = "throw"
    /\ kdf.result.err[1] = "InvalidKeyFormat"
    /\ kdf.result.address = NoAddress
    /\ kdf.result.publicKey = <<>>

\* C25: XRP prepareTransactionForSigning returns exactly one hash to sign, and
\* that hash is the first 32 bytes of SHA-512 over 0x53545800 followed by the
\* encoded bytes of the transaction.
C25_SigningHashIsSha512Half ==
  \A r \in Req :
    LET q == xrp.req[r] IN
    (q.kind = "prepareTransactionForSigning" /\ q.outcome = "resolved") =>
      /\ q.hashes = 1
      /\ Len(q.hash) = 32
      /\ q.hash = SubSeq(Sha512(<<83, 84, 88, 0>> \o EncodedTx(r)), 1, 32)

\* C26: for an XRP transaction with Account, Destination and Amount,
\* finalizeTransactionSigning with a 64-byte Ed25519 signature and a 32-byte
\* public key returns JSON whose TxnSignature is exactly 128 hex characters
\* and whose SigningPubKey is prefixed with ED.
C26_Ed25519SignedJson ==
  (/\ adp.adapter = "XRP-Ed25519" /\ adp.op = "finalizeTransactionSigning"
   /\ adp.sigs.t = "list" /\ Len(adp.sigs.items) = 1
   /\ adp.sigs.items[1].kind = "ed25519" /\ adp.sigs.items[1].len = 64
   /\ adp.publicKey.text = "ed25519 key" /\ adp.publicKey.hexLen = 64) =>
    /\ adp.out.status = "ok"
    /\ adp.out.value.TxnSignature.hexLen = 128
    /\ adp.out.value.transaction.SigningPubKey.prefix = "ED"

\* the last 20 bytes of Keccak-256 of the bytes of the derived key without its
\* 04 prefix, as lower-case hex
Last20OfKeccak ==
  LET bytes == BufferFromHex(SubSeq(kdf.result.publicKey, 3, Len(kdf.result.publicKey)))
  IN SubSeq(keccak256(bytes).digits, 25, 64)

EvmAddressDerived ==
  kdf.op = "generateAddress" /\ kdf.addressType = "evm" /\ kdf.result.status = "ok"

\* C27 as stated: the derived EVM address equals the lower-case hex of the last
\* 20 bytes of Keccak-256 of the key bytes without the 04 prefix, and is
\* exactly 40 hex characters.
C27_AddressIsFortyHexCharacters ==
  EvmAddressDerived =>
    kdf.result.address = [prefix |-> "", upper |-> FALSE, digits |-> Last20OfKeccak]

\* C27, amended: the derived EVM address is 0x followed by the lower-case hex
\* of the last 20 bytes of Keccak-256 of the key bytes without the 04 prefix:
\* 0x and exactly 40 hex characters.
C27_AddressIs0xAndFortyHexCharacters ==
  EvmAddressDerived =>
    /\ kdf.result.address = [prefix |-> "0x", upper |-> FALSE, digits |-> Last20OfKeccak]
    /\ Len(kdf.result.address.digits) = 40

\* an EVM address was derived from a well-formed root key
C27_EvmAddressOfValidKey ==
  /\ EvmAddressDerived
  /\ kdf.publicKey \in WellFormedKeys
  /\ Len(kdf.result.publicKey) = 130

\* the response of client.submit carried tesSUCCESS or terQUEUED and a hash,
\* and no call of the request on its connection failed
AcceptedWithHash(q) ==
  /\ q.engine \in {"tesSUCCESS", "terQUEUED"}
  /\ q.hasHash
  /\ ~q.disconnectFailed

\* C28: XRP broadcastTx resolves with the transaction hash whenever the
\* engine result is tesSUCCESS or terQUEUED and the response carries a hash;
\* for every other engine result, and for any failure of the connection
\* (connect, disconnect), of submit or of parsing the JSON, it rejects.
C28_BroadcastResolvesIffAccepted ==
  \A r \in Req :
    LET q == xrp.req[r] IN
    (q.kind = "broadcastTx" /\ Done(q)) =>
      IF AcceptedWithHash(q)
        THEN q.outcome = "resolved" /\ q.result = 1
        ELSE q.outcome = "rejected" /\ q.error = FailedBroadcast

\* a queued transaction was reported with its hash, and on another request a
\* refused one was rejected
C28_QueuedResolvedRefusedRejected ==
  \E r, o \in Req :
    /\ xrp.req[r].kind = "broadcastTx" /\ xrp.req[r].engine = "terQUEUED"
    /\ xrp.req[r].outcome = "resolved" /\ xrp.req[r].result = 1
    /\ xrp.req[o].kind = "broadcastTx" /\ xrp.req[o].engine = "tefPAST_SEQ"
    /\ xrp.req[o].hasHash /\ xrp.req[o].outcome = "rejected"

\* a getBalance request failed for another reason than account-not-found:
\* connect() threw, or an error that is not account-not-found was caught
FailedOtherwise(q) ==
  q.kind = "getBalance" /\ Done(q) /\ (~q.opened \/ q.heldErr # "none")

\* C29: XRP getBalance reports a zero balance only for the account-not-found
\* condition; any other failure (connection error, other RPC error) makes the
\* call reject instead of resolving to a zero balance.
C29_OtherFailuresReject ==
  \A r \in Req :
    LET q == xrp.req[r] IN
    /\ FailedOtherwise(q) => q.outcome = "rejected" /\ q.error = FailedBalance
    /\ (q.kind = "getBalance" /\ q.outcome = "resolved" /\ q.result = 0) =>
         q.notFound \/ (q.heldErr = "none" /\ q.opened)

\* the withRetry activations of the call in progress
Activations ==
  IF cl.impl = "retry" THEN {cl.stack[k] : k \in 1..Len(cl.stack)} ELSE {}

\* the message ends with the part
Includes(message, part) ==
  /\ Len(part) <= Len(message)
  /\ SubSeq(message, Len(message) - Len(part) + 1, Len(message)) = part

\* every activation has invoked its operation at most Retries times, and has
\* waited 1000 * 2^i ms after the failed attempt i and only then; a resolved
\* query resolved on the only attempt that succeeded; a rejection by
\* withRetry comes after Retries failed attempts and Retries - 1 waits, with
\* a message that ends with the message of the last failure
AttemptsAndWaits ==
  /\ \A f \in Activations :
       /\ f.n <= Retries
       /\ Len(f.delays) = f.i /\ f.i <= Retries - 1
       /\ \A k \in 1..Len(f.delays) : f.delays[k] = 1000 * Pow2(k - 1)
       /\ Len(f.failures) \in {Len(f.delays), Len(f.delays) + 1}
  /\ (cl.impl = "retry" /\ cl.op \in ViewOps /\ cl.outcome = "resolved") =>
       /\ Len(cl.stack[1].failures) = cl.stack[1].n - 1
       /\ Len(cl.stack[1].delays) = cl.stack[1].n - 1
       /\ cl.value \in ViewValues
  /\ (cl.impl = "retry" /\ cl.error = "Operation failed after") =>
       /\ cl.outcome = "rejected"
       /\ cl.stack[1].n = Retries
       /\ Len(cl.stack[1].failures) = Retries
       /\ Len(cl.stack[1].delays) = Retries - 1
       /\ Includes(cl.message, cl.stack[1].failures[Retries])

Settled == cl.outcome \in {"resolved", "rejected"}

\* C30: withRetry always terminates: it invokes the operation at most
\* Retries (3) times, returns the result of the first successful attempt
\* without further attempts, waits 1000 * 2^i ms only between attempt i and
\* attempt i+1, and after the last failed attempt rejects with an error that
\* includes the last failure's message.
C30_WithRetryTerminates ==
  /\ []AttemptsAndWaits
  /\ [][Settled => cl' = cl]_vars
  /\ (cl.outcome = "pending") ~> Settled

\* a query was given up after a timeout and then two rate-limited attempts
C30_GivenUpAfterThreeFailures ==
  /\ cl.impl = "retry" /\ cl.op = "getPublicKey" /\ cl.outcome = "rejected"
  /\ cl.stack[1].failures = <<<<"timeout">>, <<"timeout">>, <<"rate limited">>>>
  /\ cl.stack[1].delays = <<1000, 2000>>
  /\ cl.queries = 3

====
